---- MODULE Spec2Model ----
(***************************************************************************)
(* The reconciliation engine of tcsfw: the Inspector (tcsfw/inspector.py)  *)
(* processing evidence events against a declared system, with the "seen    *)
(* now" rule of Entity (tcsfw/entity.py).  The entity graph and the        *)
(* SystemMatcher live in tcsfw/model.py and tcsfw/matcher.py, which are    *)
(* not among the sources; they are modelled from the specification and the *)
(* tests and marked so below.                                              *)
(***************************************************************************)
EXTENDS Integers, Sequences, FiniteSets, TLC

\* ---------------------------------------------------------------- bounds
\* number of Inspector calls in one run, with every kind of event
MaxSteps == 3
\* number of calls in a run of flows and resets
FlowSteps == 5
\* number of calls in a run of flows between undeclared addresses
PairSteps == 4
\* number of calls in a run of set_seen_now on entities of any status and verdict
SeenSteps == 2
\* number of calls in a run of get_id and get_entity, with restarts
IdSteps == 4
\* number of calls in a run of put_event, reset and next_pending
TrailSteps == 5
ReplaySteps == 6
VerdictSteps == 2
ExternalSteps == 4
LaunchSteps == 6
\* ports of the launcher's range (1000 in launcher.py:34)
PortCount == 2

\* ----------------------------------------------------- enumerations
\* tcsfw.verdict.Status
Status == {"Placeholder", "Expected", "Unexpected", "External"}

\* tcsfw.verdict.Verdict
Verdict == {"Undefined", "Incon", "Pass", "Fail", "External", "Ignore"}

\* a missing dictionary entry / Python None
None == "None"

\* tcsfw.basics.ExternalActivity, ordered (main.py:107-110)
BANNED == 0
PASSIVE == 1
OPEN == 2
UNLIMITED == 3
ExternalActivity == {BANNED, PASSIVE, OPEN, UNLIMITED}
\* the policies tried for the backend host
D2Activity == {PASSIVE, OPEN, UNLIMITED}

\* property keys: Properties.EXPECTED, an ordinary key, a model-only key
EXPECTED == "expected"
PropertyKeys == {EXPECTED, "prop-a", "prop-m"}
\* no key is taken for a model-only key
KeyIsModel_None(key) == FALSE

\* PropertyKey.model
KeyIsModel(key) == key = "prop-m"

\* ----------------------------------------------------- entities
\* Hosts and services are records; a host has no protocol.
Host(h) == [h |-> h, proto |-> "", port |-> 0]
Service(h, proto, port) == [h |-> h, proto |-> proto, port |-> port]
NoNode == [h |-> "", proto |-> "", port |-> 0]
NoConn == <<NoNode, NoNode>>

IsService(n) == n.proto # ""
IsHost(n) == n.proto = "" /\ n.h # ""
get_parent_host(n) == Host(n.h)

\* The declared system, as the builder makes it (main.py:698-701, 735, 953):
\* every declared host, service and connection has status Expected.
D1 == Host("D1")
D2 == Host("D2")
MC == Host("MC")
D2u == Service("D2", "udp", 1234)
D2t == Service("D2", "tcp", 1234)
D2c == Service("D2", "tcp", 2000)
MCu == Service("MC", "udp", 333)
X9 == Host("X9")
X8 == Host("X8")
X7 == Host("X7")

originals == {D1, D2, MC, D2u, D2t, D2c, MCu}
originalConns == {<<D1, D2u>>, <<D1, MCu>>}

\* Service.client_side (main.py:1033)
client_side(n) == n = D2c
\* Addressable.is_multicast: the broadcast node and its services
is_multicast(n) == n.h = "MC"
\* DNS service with a captive portal (main.py:1047)
captive_portal(n) == n = D2u
\* Host.ignore_name_requests (main.py:776-777)
ignore_name_requests(h) == IF h = D1 THEN {"nok"} ELSE {}

\* ----------------------------------------------------- addresses
AnyHost == "ANY"
EndpointAddress(host, proto, port) == [host |-> host, proto |-> proto, port |-> port]
\* a plain host address has no protocol
HostAddress(a) == [host |-> a, proto |-> "", port |-> 0]
is_wildcard(a) == a.host = AnyHost
change_host(a, host) == [a EXCEPT !.host = host.host]

\* the IP address lazily created services are bound to
PrimaryIP(h) == CASE h = "D1" -> "ip1" [] h = "D2" -> "ip2" [] h = "MC" -> "ipB"
                  [] OTHER -> "ip9"

\* Service.addresses: declared services get the wildcard endpoint
\* (main.py:955-957), services created from evidence the observed endpoint
ServiceAddresses(n) ==
    IF n \in originals THEN {EndpointAddress(AnyHost, n.proto, n.port)}
    ELSE {EndpointAddress(PrimaryIP(n.h), n.proto, n.port)}

\* ----------------------------------------------------- flows
End(hw, ip, port) == [hw |-> hw, ip |-> ip, port |-> port]
e1 == End("hw1", "ip1", 1100)
e1b == End("hw1", "ip1", 1102)
e2 == End("hw2", "ip2", 1234)
e2c == End("hw2", "ip2", 1100)
e9 == End("hw9", "ip9", 1100)
e8 == End("hw8", "ip8", 1100)
e8b == End("hw8", "ip8", 1102)
eB == End("hwB", "ipB", 333)

IPFlow(src, dst) == [source |-> src, target |-> dst, proto |-> "udp"]
Flows == {IPFlow(e1, e2), IPFlow(e2, e1), IPFlow(e1b, e2), IPFlow(e9, e2),
          IPFlow(e2, e9), IPFlow(e1, eB), IPFlow(e1, e9), IPFlow(e2c, e2),
          IPFlow(e2, e2c)}
\* flows between two addresses outside the declared model
PairFlows == {IPFlow(e8, e9), IPFlow(e9, e8), IPFlow(e8b, e9), IPFlow(e9, e2)}
NoFlow == IPFlow(End("", "", 0), End("", "", 0))
Reverse(f) == [f EXCEPT !.source = f.target, !.target = f.source]

VARIABLES
    ents,              \* hosts and services of the system
    status,            \* Entity.status of hosts and services
    properties,        \* Entity.properties of hosts and services
    addresses,         \* Host.addresses
    external_activity, \* Host.external_activity
    conns,             \* connections of the system, <<source, target>>
    cstatus,           \* Entity.status of connections
    cproperties,       \* Entity.properties of connections
    connection_count,  \* Inspector.connection_count
    sessions,          \* Inspector.sessions
    known_hosts,       \* Inspector.known_hosts
    matched,           \* SystemMatcher: connection and direction of the flows seen
    events,            \* listener callbacks of the last call, in order
    call,              \* the last call: operation, input, result
    steps,             \* number of calls made
    limit,             \* number of calls of the run
    db,                \* the EntityDatabase of the registry: "memory" or "sql"
    mem,               \* InMemoryDatabase: ids, reverse_id, trail, trail_filter, cursor
    sql,               \* SQLDatabase: the tables of the store and the caches
    heard,             \* what the model listeners were told, first and in the replay
    launcher           \* Launcher: clients, connected and the processes

vars == <<ents, status, properties, addresses, external_activity, conns, cstatus,
          cproperties, connection_count, sessions, known_hosts, matched, events, call, steps,
          limit, db, mem, sql, heard, launcher>>

\* the state of the Inspector and of the system
ivars == <<ents, status, properties, addresses, external_activity, conns, cstatus,
           cproperties, connection_count, sessions, known_hosts, matched, events>>

\* the entity graph as one value, threaded through the steps of a call
Model == [ents |-> ents, status |-> status, properties |-> properties,
          addresses |-> addresses, conns |-> conns, cstatus |-> cstatus,
          cproperties |-> cproperties]

NoProps == [k \in {} |-> None]
PropGet(props, key) == IF key \in DOMAIN props THEN props[key] ELSE None
PropSet(props, key, val) == [k \in DOMAIN props \cup {key} |-> IF k = key THEN val ELSE props[k]]

\* Entity.get_expected_verdict (entity.py:49-51)
get_expected_verdict(props) ==
    IF PropGet(props, EXPECTED) = None THEN "Undefined" ELSE PropGet(props, EXPECTED)

\* Entity.is_relevant for network nodes: "not undefined or external" (entity.py:68-70)
is_relevant(st) == st \in {"Expected", "Unexpected"}

hosts(m) == {n \in m.ents : IsHost(n)}
children(m, host) == {n \in m.ents : IsService(n) /\ get_parent_host(n) = host}

\* ----------------------------------------------------- Entity (entity.py)
\* a verdict that is there is kept
set_seen_now_KeepVerdict(st, props) ==
    IF PropGet(props, EXPECTED) # None THEN None
    ELSE IF st = "Expected" THEN "Pass" ELSE IF st = "Unexpected" THEN "Fail" ELSE None

\* the verdict is returned also when it was there
set_seen_now_Always(st, props) ==
    IF st = "Expected" THEN "Pass" ELSE IF st = "Unexpected" THEN "Fail" ELSE None

\* whatever is not expected fails when seen
set_seen_now_FailOthers(st, props) ==
    IF st = "Expected" THEN (IF PropGet(props, EXPECTED) = "Pass" THEN None ELSE "Pass")
    ELSE (IF PropGet(props, EXPECTED) = "Fail" THEN None ELSE "Fail")

\* an unexpected entity gets no verdict
set_seen_now_PassOnly(st, props) ==
    IF st = "Expected" /\ PropGet(props, EXPECTED) # "Pass" THEN "Pass" ELSE None

\* Entity.set_seen_now (entity.py:33-47): the new expected verdict, or None
\* when nothing changes
set_seen_now(st, props) ==
    LET v == PropGet(props, EXPECTED)
    IN  IF st = "Expected" THEN (IF v = "Pass" THEN None ELSE "Pass")
        ELSE IF st = "Unexpected" THEN (IF v = "Fail" THEN None ELSE "Fail")
        ELSE None

\* Entity.set_property (entity.py:28-31)
set_property(props, key, val) == PropSet(props, key, val)

\* the precedence of the verdicts in a resolution, the strongest first
VerdictOrder == <<"Fail", "External", "Pass", "Incon", "Ignore", "Undefined">>
VerdictRank(v) == CHOOSE i \in DOMAIN VerdictOrder : VerdictOrder[i] = v

\* the verdict resolved so far is kept
resolve_Keep(a, b) ==
    IF a = None \/ a = "Undefined" THEN b ELSE a

\* Verdict.resolve: the verdict of the two that comes first in the
\* precedence; there is no verdict yet (None) before the first one
resolve(a, b) ==
    IF a = None THEN b
    ELSE IF b = None THEN a
    ELSE IF VerdictRank(a) <= VerdictRank(b) THEN a ELSE b

\* the loops of Entity.get_verdict (entity.py:61-64) over the verdicts of
\* the children and of the properties
RECURSIVE ResolveAll(_, _)
ResolveAll(v, verdicts) ==
    IF verdicts = <<>> THEN v
    ELSE ResolveAll(resolve(v, Head(verdicts)), Tail(verdicts))

\* Entity.get_verdict (entity.py:57-66) of an entity that is not in the cache
get_verdict(verdicts) ==
    LET v == ResolveAll(None, verdicts)
    IN  IF v = None THEN "Undefined" ELSE v

\* PropertyKey.reset as used by Entity.reset (entity.py:19-26): values that
\* stem from evidence are dropped
KeyReset(key, val) == None

\* Entity.reset (entity.py:19-26)
EntityReset(props) ==
    LET keep == {k \in DOMAIN props : KeyReset(k, props[k]) # None}
    IN  [k \in keep |-> KeyReset(k, props[k])]

\* Addressable.set_seen_now(changes): the rule of the entity, then of its
\* parent host when the entity changed (tests/test_inspector.py:104-110)
AddressableSeenNow(m, n) ==
    LET v == set_seen_now(m.status[n], m.properties[n])
        m1 == [m EXCEPT !.properties[n] = set_property(@, EXPECTED, v)]
        p == get_parent_host(n)
        pv == IF IsService(n) THEN set_seen_now(m1.status[p], m1.properties[p]) ELSE None
    IN  IF v = None THEN [m |-> m, changed |-> {}]
        ELSE IF pv = None THEN [m |-> m1, changed |-> {n}]
        ELSE [m |-> [m1 EXCEPT !.properties[p] = set_property(@, EXPECTED, pv)],
              changed |-> {n, p}]

\* ----------------------------------------------------- IoTSystem (model.py)
\* the host that claims an address, NoNode when there is none
HostByAddress(m, a) ==
    LET hs == {h \in hosts(m) : a \in m.addresses[h]}
    IN  IF hs = {} THEN NoNode ELSE CHOOSE h \in hs : TRUE

\* only the declared hosts are looked up
FindHost_Declared(m, end) ==
    IF \E h \in hosts(m) \cap originals : end.ip \in m.addresses[h] \/ end.hw \in m.addresses[h]
    THEN CHOOSE h \in hosts(m) \cap originals : end.ip \in m.addresses[h] \/ end.hw \in m.addresses[h]
    ELSE NoNode

\* host of an observed (hw, ip, port) tuple: by IP address, then by HW address
FindHost(m, end) ==
    IF HostByAddress(m, end.ip) # NoNode THEN HostByAddress(m, end.ip)
    ELSE HostByAddress(m, end.hw)

\* the host created for an address outside the model: a new object, here the
\* first unused of three
NewHostFor(m, ip) ==
    IF X9 \notin m.ents THEN X9 ELSE IF X8 \notin m.ents THEN X8 ELSE X7

\* add a host with its first address, or a service, if it is not there;
\* the status is given by the caller
AddHost(m, n, st, addrs) ==
    IF n \in m.ents THEN m
    ELSE [m EXCEPT !.ents = @ \cup {n},
                   !.status = @ @@ (n :> st),
                   !.properties = @ @@ (n :> NoProps),
                   !.addresses = @ @@ (n :> addrs)]

AddService(m, n, st) ==
    IF n \in m.ents THEN m
    ELSE [m EXCEPT !.ents = @ \cup {n},
                   !.status = @ @@ (n :> st),
                   !.properties = @ @@ (n :> NoProps)]

\* Host.learn_address_pair: both addresses become addresses of the host
learn_address_pair(m, host, hw, ip) ==
    IF {hw, ip} \subseteq m.addresses[host] THEN [m |-> m, learn |-> FALSE]
    ELSE [m |-> [m EXCEPT !.addresses[host] = @ \cup {hw, ip}], learn |-> TRUE]

\* ----------------------------------------------------- SystemMatcher
\* status of a connection that is not declared, from how its ends resolved
\* and how much external activity the declared peer tolerates
DeriveStatus(ext, s, t) ==
    LET sh == get_parent_host(s)
        th == get_parent_host(t)
    IN  IF sh \notin originals /\ th \in originals
            /\ (ext[th] >= UNLIMITED \/ (t \in originals /\ ext[th] >= OPEN))
        THEN "External"
        ELSE IF sh \in originals /\ th \notin originals /\ ext[sh] >= UNLIMITED
        THEN "External"
        ELSE "Unexpected"

\* one side of a flow: the service of the host at the protocol and port when
\* there is one, else the host; NoNode when no host claims the addresses
ResolveEnd(m, end, proto) ==
    LET h == FindHost(m, end)
    IN  IF h = NoNode THEN NoNode
        ELSE IF Service(h.h, proto, end.port) \in m.ents THEN Service(h.h, proto, end.port)
        ELSE h

\* SystemMatcher.connection_w_ends: connection, ends and direction of a flow.
\* A flow seen before keeps its connection and direction, the reverse of a
\* recorded flow is the other direction of the same connection, and any other
\* flow is a forward flow between the entities its addresses resolve to.
connection_w_ends(m, ext, mt, flow) ==
    LET rs == ResolveEnd(m, flow.source, flow.proto)
        th == FindHost(m, flow.target)
        s == IF rs = NoNode THEN NewHostFor(m, flow.source.ip) ELSE rs
        ms == [m EXCEPT !.ents = @ \cup {s}]
        tho == IF th = NoNode THEN NewHostFor(ms, flow.target.ip) ELSE th
        t == Service(tho.h, flow.proto, flow.target.port)
        c == <<s, t>>
        st == DeriveStatus(ext, s, t)
        m1 == AddService(AddHost(AddHost(m, s, st, {flow.source.ip}), tho, st, {flow.target.ip}), t, st)
        created == [m1 EXCEPT !.conns = @ \cup {c},
                              !.cstatus = @ @@ (c :> st),
                              !.cproperties = @ @@ (c :> NoProps)]
        \* a connection that lost its status in a reset gets it again
        restored == IF m.cstatus[c] = "Placeholder"
                    THEN [m EXCEPT !.cstatus[c] = st]
                    ELSE m
    IN  IF flow \in DOMAIN mt
        THEN [m |-> m, conn |-> mt[flow].conn, reply |-> mt[flow].reply]
        ELSE IF Reverse(flow) \in DOMAIN mt
        THEN [m |-> m, conn |-> mt[Reverse(flow)].conn, reply |-> ~mt[Reverse(flow)].reply]
        ELSE IF c \in m.conns
        THEN [m |-> restored, conn |-> c, reply |-> FALSE]
        ELSE [m |-> created, conn |-> c, reply |-> FALSE]

\* SystemMatcher.reset: evidence is cleared from every entity; what is not
\* part of the declared model is no longer real (Placeholder); learned
\* addresses stay (tests/test_listener.py:71-72)
MatcherReset(m) ==
    [m EXCEPT !.status = [n \in DOMAIN @ |-> IF n \in originals THEN @[n] ELSE "Placeholder"],
              !.properties = [n \in DOMAIN @ |-> EntityReset(@[n])],
              !.cstatus = [c \in DOMAIN @ |-> IF c \in originalConns THEN @[c] ELSE "Placeholder"],
              !.cproperties = [c \in DOMAIN @ |-> EntityReset(@[c])]]

\* ----------------------------------------------------- EntityDatabase
\* The entities given to the databases of the registry: objects of a model,
\* built once for every run (builder_backend.py, tests/test_db.py:14-27).
\* Two objects of different runs with the same type, name and owner are the
\* same structural entity.
DbObject(type, name, inst) == [type |-> type, name |-> name, inst |-> inst]
NoEntity == DbObject("", "", 0)
NoId == -1
\* the system, its one host, the service, the software (components.py:21-23)
\* and a software named as the service (main.py:617, 829), and a connection
DbSystem(i) == DbObject("system", "IoT", i)
DbHost(i) == DbObject("host", "Device", i)
DbService(i) == DbObject("service", "SSH:22", i)
DbSoftware(i) == DbObject("component", "Device SW", i)
DbNamedSoftware(i) == DbObject("component", "SSH:22", i)
DbConnection(i) == DbObject("connection", "Device => SSH:22", i)
MaxInst == 2
DbEntities == UNION {{DbSystem(i), DbHost(i), DbService(i), DbSoftware(i), DbNamedSoftware(i),
                      DbConnection(i)} : i \in 1..MaxInst}
\* the integers asked for: below, in and beyond the range of the IDs given
TryIds == -2..5

\* Service.get_parent_host, NodeComponent.entity, Connection.source and target
DbOwner(e) == DbHost(e.inst)
DbSource(e) == DbHost(e.inst)
DbTarget(e) == DbService(e.inst)
\* type, name and owner: what stays of an entity from run to run
Structure(e) == [type |-> e.type, name |-> e.name]

\* an event as it is stored: its class, the label of its evidence source, its
\* place in the order of arrival, and the flow when it is one
DbEvent(type, label, no, flow) == [type |-> type, label |-> label, no |-> no, flow |-> flow]
NoEvent == DbEvent("", "", 0, NoFlow)
Labels == {"pcap", "nmap"}
\* SQLDatabase.event_types (sql_database.py:60-69), and a class that is not there
EventTypes == {"flow-eth", "flow-ip", "flow-ble", "prop-ent", "prop-add", "name",
               "scan-service", "scan-host"}
\* the events put: flows of either source, and one of no known class
Puts == {[type |-> "flow-ip", label |-> "pcap"], [type |-> "flow-ip", label |-> "nmap"],
         [type |-> "other", label |-> "pcap"]}
\* the filters given to reset: none, one with a label off, one with a label
\* absent
NoFilter == [l \in {} |-> FALSE]
Filters == {NoFilter, [l \in Labels |-> l = "pcap"], [l \in {"nmap"} |-> TRUE]}

\* InMemoryDatabase.__init__ (entity_database.py:11-16, 44-48)
InMemoryDatabase ==
    [ids |-> [e \in {} |-> 0], reverse_id |-> <<>>, trail |-> <<>>,
     trail_filter |-> NoFilter, cursor |-> 0]

\* InMemoryDatabase.reset (entity_database.py:50-52)
InMemory_reset(d, source_filter) ==
    [d EXCEPT !.cursor = 0, !.trail_filter = source_filter]

\* "self.trail_filter.get(source.label, False)" (entity_database.py:59)
FilterGet(trail_filter, label) ==
    IF label \in DOMAIN trail_filter THEN trail_filter[label] ELSE FALSE

\* InMemoryDatabase.next_pending (entity_database.py:54-64)
RECURSIVE InMemory_next_pending(_)
InMemory_next_pending(d) ==
    IF d.cursor < Len(d.trail)
    THEN LET e == d.trail[d.cursor + 1]
             d1 == [d EXCEPT !.cursor = @ + 1]
         IN  IF FilterGet(d.trail_filter, e.label) THEN [db |-> d1, event |-> e]
             ELSE InMemory_next_pending(d1)
    ELSE [db |-> d, event |-> NoEvent]

\* InMemoryDatabase.get_id (entity_database.py:66-71)
InMemory_get_id(d, entity) ==
    IF entity \in DOMAIN d.ids THEN [db |-> d, id |-> d.ids[entity]]
    ELSE LET i == Cardinality(DOMAIN d.ids)
         IN  [db |-> [d EXCEPT !.ids = @ @@ (entity :> i),
                               !.reverse_id = Append(@, entity)],
              id |-> i]

\* InMemoryDatabase.get_entity (entity_database.py:73-74): the list is
\* indexed as Python does, a negative index counts from the end and an index
\* before the start raises
InMemory_get_entity(d, id_value) ==
    LET n == Len(d.reverse_id)
    IN  IF id_value >= n THEN [raised |-> FALSE, entity |-> NoEntity]
        ELSE IF id_value >= 0 THEN [raised |-> FALSE, entity |-> d.reverse_id[id_value + 1]]
        ELSE IF n + id_value >= 0 THEN [raised |-> FALSE, entity |-> d.reverse_id[n + id_value + 1]]
        ELSE [raised |-> TRUE, entity |-> NoEntity]

\* "self.trail_filter.setdefault(source.label, True)" (entity_database.py:79)
FilterSetDefault(trail_filter, label) ==
    IF label \in DOMAIN trail_filter THEN trail_filter ELSE trail_filter @@ (label :> TRUE)

\* InMemoryDatabase.put_event (entity_database.py:76-79)
InMemory_put_event(d, event) ==
    [d EXCEPT !.trail = Append(@, event),
              !.trail_filter = FilterSetDefault(@, event.label)]

\* the key of an entity in SQLDatabase.id_by_key: the name of a host, name
\* and owner ID of a service or component, the two IDs of a connection
\* (sql_database.py:167-187); a Python tuple or string, here a record
CacheKey(name, source, target) == [name |-> name, source |-> source, target |-> target]

\* a row of TableEntityID (sql_database.py:16-23, 199-200)
TableEntityID(id, name, source, target, type) ==
    [id |-> id, name |-> name, source |-> source, target |-> target, type |-> type]

\* the key of a row in SQLDatabase._fill_cache (sql_database.py:80-87)
RowKey(row) ==
    IF row.source = NoId /\ row.target = NoId THEN CacheKey(row.name, NoId, NoId)
    ELSE IF row.source # NoId /\ row.target # NoId THEN CacheKey("", row.source, row.target)
    ELSE CacheKey(row.name, row.source, NoId)

\* SQLDatabase.__init__ with _fill_cache on a store (sql_database.py:47-94):
\* the IDs of the rows are reserved, no entity is known yet
SQLDatabase(rows, stored) ==
    [rows |-> rows, events |-> stored,
     id_by_key |-> [k \in {RowKey(r) : r \in rows} |->
                       (CHOOSE r \in rows : RowKey(r) = k).id],
     id_cache |-> [e \in {} |-> 0],
     entity_cache |-> [i \in {r.id : r \in rows} |-> NoEntity],
     free_cache_id |-> 1]

\* SQLDatabase._cache_entity (sql_database.py:209-216)
cache_entity(d, entity) ==
    LET used == DOMAIN d.entity_cache
        id_i == CHOOSE i \in d.free_cache_id..(d.free_cache_id + Cardinality(used)) :
                    /\ i \notin used
                    /\ \A j \in d.free_cache_id..(i - 1) : j \in used
    IN  [db |-> [d EXCEPT !.id_cache = (entity :> id_i) @@ @,
                          !.entity_cache = (id_i :> entity) @@ @,
                          !.free_cache_id = id_i + 1],
         id |-> id_i]

\* "cache_key" in SQLDatabase.get_id (sql_database.py:167-187)
SqlKey(entity, source_i, target_i) ==
    IF entity.type = "connection" THEN CacheKey("", source_i, target_i)
    ELSE IF entity.type \in {"service", "component"} THEN CacheKey(entity.name, source_i, NoId)
    ELSE CacheKey(entity.name, NoId, NoId)

\* an ID of the store is not looked up, every run gives its own
StoredId_Forget(d, key) == NoId

\* "id_i = self.id_by_key.get(cache_key, -1)" (sql_database.py:191)
StoredId(d, key) == IF key \in DOMAIN d.id_by_key THEN d.id_by_key[key] ELSE NoId

\* SQLDatabase.get_id (sql_database.py:159-207)
RECURSIVE SQL_get_id(_, _)
SQL_get_id(d, entity) ==
    IF entity \in DOMAIN d.id_cache /\ d.id_cache[entity] >= 0
    THEN [db |-> d, id |-> d.id_cache[entity]]
    ELSE LET s == IF entity.type \in {"service", "component"} THEN SQL_get_id(d, DbOwner(entity))
                  ELSE IF entity.type = "connection" THEN SQL_get_id(d, DbSource(entity))
                  ELSE [db |-> d, id |-> NoId]
             t == IF entity.type = "connection" THEN SQL_get_id(s.db, DbTarget(entity))
                  ELSE [db |-> s.db, id |-> NoId]
             cache_key == SqlKey(entity, s.id, t.id)
             id_i == StoredId(t.db, cache_key)
             c == cache_entity(t.db, entity)
         IN  IF entity.type = "system" THEN c
             ELSE IF id_i >= 0
             THEN [db |-> [t.db EXCEPT !.id_cache = (entity :> id_i) @@ @,
                                       !.entity_cache = (id_i :> entity) @@ @],
                   id |-> id_i]
             ELSE [db |-> [c.db EXCEPT
                             !.rows = @ \cup {TableEntityID(c.id, entity.name, s.id, t.id,
                                                            entity.type)},
                             !.id_by_key = (cache_key :> c.id) @@ @],
                   id |-> c.id]

\* SQLDatabase.get_entity (sql_database.py:218-219)
SQL_get_entity(d, id_value) ==
    [raised |-> FALSE,
     entity |-> IF id_value \in DOMAIN d.entity_cache THEN d.entity_cache[id_value]
                ELSE NoEntity]

\* SQLDatabase.put_event (sql_database.py:221-243): a row of TableEvent, none
\* for an event of a class that is not known
SQL_put_event(d, event) ==
    IF event.type \notin EventTypes THEN d
    ELSE [d EXCEPT !.events = Append(@, event)]

\* SQLDatabase.read_events (sql_database.py:136-151): the events of the rows
\* with a class that is known, in the order of the rows
RECURSIVE SQL_read_events(_)
SQL_read_events(stored) ==
    IF stored = <<>> THEN <<>>
    ELSE (IF Head(stored).type \in EventTypes THEN <<Head(stored)>> ELSE <<>>)
         \o SQL_read_events(Tail(stored))

\* SQLDatabase.reset (sql_database.py:153-154)
SQL_reset(d, source_filter) == d

\* SQLDatabase.next_pending (sql_database.py:156-157)
SQL_next_pending(d) == [db |-> d, event |-> NoEvent]

\* nothing was heard, nothing is replayed
NoHeard == [first |-> <<>>, replay |-> <<>>, replaying |-> FALSE, filter |-> NoFilter]

\* ----------------------------------------------------- Launcher state
\* the first client port (launcher.py:34)
FirstPort == 10000

\* range(*self.client_port_range) (launcher.py:34, 115)
client_port_range == FirstPort .. (FirstPort + PortCount - 1)

\* Launcher.__init__ (launcher.py:34-36): no port is taken, no application is
\* registered; processes holds the subprocess and the tasks of each launch
Launcher == [clients |-> {}, connected |-> [a \in {} |-> 0],
             processes |-> [a \in {} |-> [process |-> "", streams |-> ""]]]

\* a registry with an empty database of either kind
InitDb ==
    /\ mem = InMemoryDatabase
    /\ sql = SQLDatabase({}, <<>>)
    /\ heard = NoHeard
    /\ launcher = Launcher

\* calls of the Inspector alone
Idle == UNCHANGED <<db, mem, sql, heard, launcher>>

\* ----------------------------------------------------- Inspector state
HostChange(h) == [kind |-> "host", host |-> h, conn |-> NoConn]
ConnectionChange(c) == [kind |-> "conn", host |-> NoNode, conn |-> c]

NoAddress == EndpointAddress("", "", 0)
NoCall == [op |-> "init", raised |-> FALSE, flow |-> NoFlow, reply |-> FALSE,
           node |-> NoNode, conn |-> NoConn, address |-> NoAddress, endpoints |-> {},
           key |-> "", val |-> None, name |-> "", peers |-> {}, entity |-> NoNode,
           repeat |-> FALSE, promoted |-> {}, was |-> [n \in {} |-> None],
           id |-> NoId, object |-> NoEntity, event |-> NoEvent, read |-> <<>>,
           verdicts |-> <<>>, none |-> FALSE]

\* what the call found: the hosts and services that were Placeholder and are
\* not any more, and the expected verdict that the changed ones had before
Recorded(c) ==
    [c EXCEPT !.promoted = {n \in ents : status[n] = "Placeholder" /\ status'[n] # "Placeholder"},
              !.was = [n \in {x \in ents : properties'[x] # properties[x]} |->
                          PropGet(properties[n], EXPECTED)]]

\* write the entity graph back
SetModel(mm) ==
    \E m \in {mm} :
        /\ ents' = m.ents
        /\ status' = m.status
        /\ properties' = m.properties
        /\ addresses' = m.addresses
        /\ conns' = m.conns
        /\ cstatus' = m.cstatus
        /\ cproperties' = m.cproperties

\* one more call of the run
Step ==
    /\ steps < limit
    /\ steps' = steps + 1
    /\ UNCHANGED limit

\* Inspector._list_hosts (inspector.py:35-38)
list_hosts(m) == hosts(m)

\* Inspector.__init__ (inspector.py:19-26) on the declared system
InitSystem ==
    /\ ents = originals
    /\ status = [n \in originals |-> "Expected"]
    /\ properties = [n \in originals |-> NoProps]
    /\ addresses = (D1 :> {"hw1"}) @@ (D2 :> {"ip2"}) @@ (MC :> {"hwB", "ipB"})
    /\ external_activity \in {[h \in {D1, D2, MC} |->
            IF h = D2 THEN a ELSE IF h = MC THEN OPEN ELSE BANNED] : a \in D2Activity}
    /\ conns = originalConns
    /\ cstatus = [c \in originalConns |-> "Expected"]
    /\ cproperties = [c \in originalConns |-> NoProps]
    /\ connection_count = [c \in {} |-> 0]
    /\ sessions = [f \in {} |-> FALSE]
    /\ known_hosts = {D1, D2, MC}
    /\ matched = [f \in {} |-> [conn |-> NoConn, reply |-> FALSE]]
    /\ events = <<>>
    /\ call = NoCall
    /\ steps = 0
    /\ db = "memory"
    /\ InitDb

Init ==
    /\ InitSystem
    /\ limit = MaxSteps

\* ----------------------------------------------------- Entity.set_seen_now alone
\* entities of every status and expected verdict
SeenEntities == {D1, D2}
SeenProps == {NoProps} \cup {(EXPECTED :> v) : v \in Verdict}

InitSeen ==
    /\ ents = SeenEntities
    /\ status \in [SeenEntities -> Status]
    /\ properties \in [SeenEntities -> SeenProps]
    /\ addresses = [n \in SeenEntities |-> {}]
    /\ external_activity = [n \in SeenEntities |-> BANNED]
    /\ conns = {}
    /\ cstatus = [c \in {} |-> "Expected"]
    /\ cproperties = [c \in {} |-> NoProps]
    /\ connection_count = [c \in {} |-> 0]
    /\ sessions = [f \in {} |-> FALSE]
    /\ known_hosts = SeenEntities
    /\ matched = [f \in {} |-> [conn |-> NoConn, reply |-> FALSE]]
    /\ events = <<>>
    /\ call = NoCall
    /\ steps = 0
    /\ limit = SeenSteps
    /\ db = "memory"
    /\ InitDb

\* entity.set_seen_now() (entity.py:33-47); the returned verdict is recorded
SeenNow(n) ==
    /\ Step
    /\ UNCHANGED <<ents, status, addresses, external_activity, conns, cstatus, cproperties,
                   connection_count, sessions, known_hosts, matched>>
    /\ \E v \in {set_seen_now(status[n], properties[n])} :
          /\ properties' = IF v = None THEN properties
                           ELSE [properties EXCEPT ![n] = set_property(@, EXPECTED, v)]
          /\ events' = <<>>
          /\ call' = Recorded([NoCall EXCEPT !.op = "set_seen_now", !.node = n, !.val = v,
                                    !.repeat = (call.op = "set_seen_now" /\ call.node = n)])

NextSeen == \E n \in SeenEntities : SeenNow(n) /\ Idle

SpecSeen == InitSeen /\ [][NextSeen]_vars

\* ----------------------------------------------------- Inspector.connection
\* every flow is taken for the first one of its connection
IsFirstFlow_Any(c_count) == c_count >= 1

\* "if c_count == 1" (inspector.py:85)
IsFirstFlow(c_count) == c_count = 1

\* "new_session = session is None" (inspector.py:56-57)
IsNewSession(sess, flow) == flow \notin DOMAIN sess

\* the endpoints are left as they are
PromoteEnd_Skip(m, conn, n) == m

\* every endpoint takes the status of the connection
PromoteEnd_Always(m, conn, n) == [m EXCEPT !.status[n] = m.cstatus[conn]]

\* the endpoints cannot be placeholders (inspector.py:74-79)
PromoteEnd(m, conn, n) ==
    IF m.status[n] = "Placeholder" THEN [m EXCEPT !.status[n] = m.cstatus[conn]] ELSE m

\* update_seen_status (inspector.py:64-71): the entity is sent when its
\* seen-now reports a change
update_seen_status(ms, entity) ==
    LET r == AddressableSeenNow(ms.m, entity)
    IN  [m |-> r.m, send |-> IF r.changed # {} THEN ms.send \cup {entity} ELSE ms.send]

\* conn.set_seen_now() (inspector.py:87) by Entity.set_seen_now
ConnSeenNow(m, conn) ==
    LET v == set_seen_now(m.cstatus[conn], m.cproperties[conn])
    IN  IF v = None THEN m ELSE [m EXCEPT !.cproperties[conn] = set_property(@, EXPECTED, v)]

\* learning of HW/IP pairs on the first flow (inspector.py:89-97)
LearnPairs(ms, conn, flow, reply) ==
    LET e0 == IF reply THEN conn[2] ELSE conn[1]
        e1_ == IF reply THEN conn[1] ELSE conn[2]
        l0 == learn_address_pair(ms.m, get_parent_host(e0), flow.source.hw, flow.source.ip)
        l1 == learn_address_pair(l0.m, get_parent_host(e1_), flow.target.hw, flow.target.ip)
    IN  [m |-> l1.m,
         send |-> ms.send \cup (IF l0.learn THEN {e0} ELSE {}) \cup (IF l1.learn THEN {e1_} ELSE {})]

\* both ends are marked seen in either direction
NewSession_BothEnds(ms, conn, reply) ==
    update_seen_status(update_seen_status(ms, conn[1]), conn[2])

\* an external target is reported in every new session
NewSession_ExternalAlways(ms, conn, reply) ==
    LET source == conn[1]
        target == conn[2]
        u == update_seen_status(ms, source)
    IN  IF reply THEN update_seen_status(ms, target)
        ELSE IF u.m.status[target] = "Unexpected" THEN update_seen_status(u, target)
        ELSE IF is_relevant(u.m.status[target]) /\ is_multicast(target)
             THEN update_seen_status(u, target)
        ELSE IF u.m.status[target] = "External"
             THEN [m |-> [u.m EXCEPT !.properties[target] = set_property(@, EXPECTED, "Incon")],
                   send |-> u.send \cup {target}]
        ELSE u

\* a multicast target waits for a reply as any other target
NewSession_NoMulticast(ms, conn, reply) ==
    LET source == conn[1]
        target == conn[2]
        u == update_seen_status(ms, source)
        exp == PropGet(u.m.properties[target], EXPECTED)
    IN  IF reply THEN update_seen_status(ms, target)
        ELSE IF u.m.status[target] = "Unexpected" THEN update_seen_status(u, target)
        ELSE IF u.m.status[target] = "External" /\ exp = None
             THEN [m |-> [u.m EXCEPT !.properties[target] = set_property(@, EXPECTED, "Incon")],
                   send |-> u.send \cup {target}]
        ELSE u

\* a new session or direction (inspector.py:99-119)
NewSession(ms, conn, reply) ==
    LET source == conn[1]
        target == conn[2]
        u == update_seen_status(ms, source)
        exp == PropGet(u.m.properties[target], EXPECTED)
    IN  IF reply THEN update_seen_status(ms, target)
        ELSE IF u.m.status[target] = "Unexpected" THEN update_seen_status(u, target)
        ELSE IF is_relevant(u.m.status[target]) /\ is_multicast(target)
             THEN update_seen_status(u, target)
        ELSE IF u.m.status[target] = "External" /\ exp = None
             THEN [m |-> [u.m EXCEPT !.properties[target] = set_property(@, EXPECTED, "Incon")],
                   send |-> u.send \cup {target}]
        ELSE u

\* the connection is reported before its ends
ConnectionEvents_ConnFirst(send, sendConn, sendAny, conn) ==
    IF ~sendAny THEN <<>>
    ELSE (IF sendConn THEN <<ConnectionChange(conn)>> ELSE <<>>)
         \o (IF conn[1] \in send THEN <<HostChange(get_parent_host(conn[1]))>> ELSE <<>>)
         \o (IF conn[2] \in send THEN <<HostChange(get_parent_host(conn[2]))>> ELSE <<>>)

\* the listener calls at the end of the call (inspector.py:127-133)
ConnectionEvents(send, sendConn, sendAny, conn) ==
    IF ~sendAny THEN <<>>
    ELSE (IF conn[1] \in send THEN <<HostChange(get_parent_host(conn[1]))>> ELSE <<>>)
         \o (IF conn[2] \in send THEN <<HostChange(get_parent_host(conn[2]))>> ELSE <<>>)
         \o (IF sendConn THEN <<ConnectionChange(conn)>> ELSE <<>>)

\* the direction found by the matcher is dropped
FlowReply_Forward(k) == FALSE

\* "conn, s, t, reply = key" and "flow.reply = reply" (inspector.py:46-48)
FlowReply(k) == k.reply

\* PropertyKey.update: the value is stored under the key
KeyUpdate(props, key, val) == PropSet(props, key, val)

\* Flow.properties: the flows of the second client port and of the unknown
\* host carry a property
FlowProperties(flow) ==
    IF flow \in {IPFlow(e1b, e2), IPFlow(e9, e2)} THEN ("prop-a" :> "Pass") ELSE NoProps

\* the properties of any connection take those of the flow
MergesProperties_Always(st) == TRUE

\* "if conn.status == Status.EXPECTED" (inspector.py:122)
MergesProperties(st) == st = "Expected"

\* "flow event can carry properties" (inspector.py:121-125)
MergeProperties(m, conn, flow) ==
    LET fp == FlowProperties(flow)
        cp == m.cproperties[conn]
    IN  IF MergesProperties(m.cstatus[conn])
        THEN [m EXCEPT !.cproperties[conn] =
                 [key \in DOMAIN cp \cup DOMAIN fp |->
                     IF key \in DOMAIN fp THEN KeyUpdate(cp, key, fp[key])[key] ELSE cp[key]]]
        ELSE m

\* the steps of Inspector.connection after the assertion (inspector.py:52-125)
ConnectionSteps(k, flow, cc, sess) ==
    LET conn == k.conn
        reply == FlowReply(k)
        c_count == (IF conn \in DOMAIN cc THEN cc[conn] ELSE 0) + 1
        new_session == IsNewSession(sess, flow)
        first == IsFirstFlow(c_count)
        m1 == PromoteEnd(PromoteEnd(k.m, conn, conn[1]), conn, conn[2])
        ms0 == [m |-> m1, send |-> {}]
        ms1 == IF first THEN LearnPairs([ms0 EXCEPT !.m = ConnSeenNow(m1, conn)], conn, flow, reply)
               ELSE ms0
        ms2 == IF new_session THEN NewSession(ms1, conn, reply) ELSE ms1
    IN  [ms2 EXCEPT !.m = MergeProperties(ms2.m, conn, flow)]

\* Inspector.connection (inspector.py:43-134)
Connection(flow) ==
    /\ Step
    /\ UNCHANGED external_activity
    /\ \E k \in {connection_w_ends(Model, external_activity, matched, flow)} :
       \E ms2 \in {ConnectionSteps(k, flow, connection_count, sessions)} :
       LET conn == k.conn
           reply == FlowReply(k)
           c_count == (IF conn \in DOMAIN connection_count THEN connection_count[conn] ELSE 0) + 1
           new_session == IsNewSession(sessions, flow)
           first == IsFirstFlow(c_count)
       IN  /\ matched' = matched @@ (flow :> [conn |-> conn, reply |-> k.reply])
           /\ IF k.m.cstatus[conn] = "Placeholder"
              THEN \* the assertion fails after the matcher has run (inspector.py:50)
                   /\ SetModel(k.m)
                   /\ UNCHANGED <<connection_count, sessions, known_hosts>>
                   /\ events' = <<>>
                   /\ call' = Recorded([NoCall EXCEPT !.op = "connection", !.raised = TRUE,
                                                      !.flow = flow])
              ELSE /\ SetModel(ms2.m)
                   /\ connection_count' = [c \in DOMAIN connection_count \cup {conn} |->
                                              IF c = conn THEN c_count ELSE connection_count[c]]
                   /\ sessions' = IF new_session THEN sessions @@ (flow :> reply) ELSE sessions
                   /\ known_hosts' = known_hosts
                                       \cup {get_parent_host(conn[1]), get_parent_host(conn[2])}
                   /\ events' = ConnectionEvents(ms2.send, first, first \/ new_session, conn)
                   /\ call' = Recorded([NoCall EXCEPT !.op = "connection", !.flow = flow,
                                                      !.reply = reply, !.conn = conn,
                                                      !.repeat = (call.op = "connection"
                                                                  /\ ~call.raised
                                                                  /\ call.flow = flow)])

\* the reset keeps the flow counters
Reset_KeepCounts ==
    /\ Step
    /\ call.op # "init"
    /\ \E m \in {MatcherReset(Model)} :
        /\ SetModel(m)
        /\ known_hosts' = list_hosts(m)
    /\ connection_count' = connection_count
    /\ sessions' = [f \in {} |-> FALSE]
    /\ matched' = [f \in {} |-> [conn |-> NoConn, reply |-> FALSE]]
    /\ events' = <<>>
    /\ call' = Recorded([NoCall EXCEPT !.op = "reset"])
    /\ UNCHANGED external_activity

\* Inspector.reset (inspector.py:28-33)
Reset ==
    /\ Step
    /\ call.op # "init"
    /\ \E m \in {MatcherReset(Model)} :
        /\ SetModel(m)
        /\ known_hosts' = list_hosts(m)
    /\ connection_count' = [c \in {} |-> 0]
    /\ sessions' = [f \in {} |-> FALSE]
    /\ matched' = [f \in {} |-> [conn |-> NoConn, reply |-> FALSE]]
    /\ events' = <<>>
    /\ call' = Recorded([NoCall EXCEPT !.op = "reset"])
    /\ UNCHANGED external_activity

\* ----------------------------------------------------- IoTSystem lookups
\* a Placeholder is resolved before it is used
ResolvePlaceholder(m, n, st) ==
    IF m.status[n] = "Placeholder" THEN [m EXCEPT !.status[n] = st] ELSE m

\* IoTSystem.get_endpoint: get or create the host or service of an address;
\* what is created is outside the declared model (entity.py:13)
get_endpoint(m, a) ==
    LET h0 == HostByAddress(m, a.host)
        h == IF h0 = NoNode THEN NewHostFor(m, a.host) ELSE h0
        m1 == ResolvePlaceholder(AddHost(m, h, "Unexpected", {a.host}), h, "Unexpected")
        sv == Service(h.h, a.proto, a.port)
        st == IF m1.status[h] = "External" THEN "External" ELSE "Unexpected"
    IN  IF a.proto = "" THEN [m |-> m1, ent |-> h]
        ELSE [m |-> ResolvePlaceholder(AddService(m1, sv, st), sv, st), ent |-> sv]

\* IoTSystem.learn_named_address: the host of a DNS name, found by name,
\* then by address, else created
NameHost == Host("XN")
learn_named_address(m, name, address) ==
    LET byName == HostByAddress(m, name)
        byAddr == IF address = None THEN NoNode ELSE HostByAddress(m, address)
        h == IF byName # NoNode THEN byName
             ELSE IF byAddr # NoNode THEN byAddr
             ELSE IF address = None THEN NameHost ELSE NewHostFor(m, address)
        m1 == AddHost(m, h, "Unexpected", IF address = None THEN {name} ELSE {address})
    IN  [m |-> [m1 EXCEPT !.addresses[h] = @ \cup {name}], host |-> h]

\* the entity is looked up and not marked seen
get_seen_entity_Unmarked(m, a) == get_endpoint(m, a)

\* Inspector._get_seen_entity (inspector.py:228-232)
get_seen_entity(m, a) ==
    LET g == get_endpoint(m, a)
    IN  [m |-> AddressableSeenNow(g.m, g.ent).m, ent |-> g.ent]

\* ----------------------------------------------------- Inspector.name
NameEvent(name, address, service, peers) ==
    [name |-> name, address |-> address, service |-> service, peers |-> peers]
NameEvents == {NameEvent("n9", "ip9", NoNode, {}),
               NameEvent("n9", "ip9", NoNode, {D1}),
               NameEvent("n9", "ip9", NoNode, {D2u}),
               NameEvent("nok", "ip9", NoNode, {D1}),
               NameEvent("n2", "ip2", D2u, {D1})}

\* the names a peer may ask for are not looked at
NameViolation_AnyPeer(ext, name, peers) ==
    \E pe \in peers : ext[get_parent_host(pe)] < OPEN

\* the peers loop (inspector.py:146-153): some peer makes the name a violation
NameViolation(ext, name, peers) ==
    \E pe \in peers :
        /\ name \notin ignore_name_requests(get_parent_host(pe))
        /\ ext[get_parent_host(pe)] < OPEN

\* the host is left without a status
NameAllowedStatus_Placeholder == "Placeholder"

\* status given to a new unexpected host no peer objects to (inspector.py:154-156)
NameAllowedStatus == "External"

\* every named host is taken for a new one
IsNewHost_Always(known, h) == TRUE

\* "if h not in self.known_hosts" (inspector.py:142)
IsNewHost(known, h) == h \notin known

\* Inspector.name (inspector.py:136-159)
Name(event) ==
    /\ Step
    /\ UNCHANGED <<external_activity, connection_count, sessions, matched>>
    /\ LET address == IF event.service # NoNode /\ captive_portal(event.service)
                         /\ event.address \in addresses[get_parent_host(event.service)]
                      THEN None ELSE event.address
       IN  \E l \in {learn_named_address(Model, event.name, address)} :
       LET h == l.host
           new == IsNewHost(known_hosts, h)
           m1 == IF new /\ l.m.status[h] = "Unexpected"
                 THEN IF NameViolation(external_activity, event.name, event.peers)
                      THEN AddressableSeenNow(l.m, h).m
                      ELSE [l.m EXCEPT !.status[h] = NameAllowedStatus]
                 ELSE l.m
       IN  /\ SetModel(m1)
           /\ known_hosts' = known_hosts \cup {h}
           /\ events' = <<HostChange(h)>>
           /\ call' = Recorded([NoCall EXCEPT !.op = "name", !.name = event.name, !.peers = event.peers,
                                     !.node = h])

\* ----------------------------------------------------- property updates
UpdateKeys == {"prop-a", "prop-m"}
UpdateNodes == {D2t, X9}
UpdateConns == {<<D1, D2u>>, <<X9, D2u>>}

\* no update is dropped for the status of its target
UpdateDropped_None(st) == FALSE

\* "no properties for placeholders or unexpected entities" (inspector.py:163)
UpdateDropped(st) == st \in {"Placeholder", "Unexpected"}

\* Inspector.property_update (inspector.py:161-185) for a host or service
PropertyUpdate(s, key, val) ==
    /\ Step
    /\ s \in ents
    /\ UNCHANGED <<external_activity, connection_count, sessions, known_hosts, matched,
                   ents, status, addresses, conns, cstatus, cproperties>>
    /\ IF UpdateDropped(status[s])
       THEN /\ UNCHANGED properties
            /\ events' = <<>>
            /\ call' = Recorded([NoCall EXCEPT !.op = "property_update", !.entity = s, !.key = key,
                                      !.val = val, !.node = s])
       ELSE IF KeyIsModel(key) /\ key \notin DOMAIN properties[s]
       THEN /\ UNCHANGED properties
            /\ events' = <<>>
            /\ call' = Recorded([NoCall EXCEPT !.op = "property_update", !.entity = s, !.key = key,
                                      !.val = val, !.none = TRUE])
       ELSE /\ properties' = [properties EXCEPT ![s] = KeyUpdate(@, key, val)]
            /\ events' = <<HostChange(get_parent_host(s))>>
            /\ call' = Recorded([NoCall EXCEPT !.op = "property_update", !.entity = s, !.key = key,
                                      !.val = val, !.node = s])

\* Inspector.property_update (inspector.py:161-185) for a connection
PropertyUpdateConn(c, key, val) ==
    /\ Step
    /\ c \in conns
    /\ UNCHANGED <<external_activity, connection_count, sessions, known_hosts, matched,
                   ents, status, properties, addresses, conns, cstatus>>
    /\ IF UpdateDropped(cstatus[c])
       THEN /\ UNCHANGED cproperties
            /\ events' = <<>>
            /\ call' = Recorded([NoCall EXCEPT !.op = "property_update", !.key = key, !.val = val,
                                      !.conn = c])
       ELSE IF KeyIsModel(key) /\ key \notin DOMAIN cproperties[c]
       THEN /\ UNCHANGED cproperties
            /\ events' = <<>>
            /\ call' = Recorded([NoCall EXCEPT !.op = "property_update", !.key = key, !.val = val,
                                      !.conn = c, !.none = TRUE])
       ELSE /\ cproperties' = [cproperties EXCEPT ![c] = KeyUpdate(@, key, val)]
            /\ events' = <<ConnectionChange(c)>>
            /\ call' = Recorded([NoCall EXCEPT !.op = "property_update", !.key = key, !.val = val,
                                      !.conn = c])

UpdateAddresses == {EndpointAddress("ip2", "tcp", 1234), HostAddress("ip9")}

\* Inspector.property_address_update (inspector.py:187-198)
PropertyAddressUpdate(add, key, val) ==
    /\ Step
    /\ UNCHANGED <<external_activity, connection_count, sessions, known_hosts, matched>>
    /\ \E g \in {get_seen_entity(Model, add)} :
       LET s == g.ent
           ignored == KeyIsModel(key) /\ key \notin DOMAIN g.m.properties[s]
       IN  /\ SetModel(IF ignored THEN g.m
                       ELSE [g.m EXCEPT !.properties[s] = KeyUpdate(@, key, val)])
           /\ events' = IF ignored THEN <<>> ELSE <<HostChange(get_parent_host(s))>>
           /\ call' = Recorded([NoCall EXCEPT !.op = "property_address_update", !.address = add,
                                     !.key = key, !.val = val, !.node = s])

\* ----------------------------------------------------- scans
ScanEndpoints == {EndpointAddress("ip2", "tcp", 1234), EndpointAddress("ip2", "tcp", 2234),
                  EndpointAddress("ip2", "udp", 1234), HostAddress("ip2"),
                  EndpointAddress("ip9", "tcp", 80)}

\* Inspector.service_scan (inspector.py:200-205): the entity is marked seen
\* before its type is asserted
ServiceScan(endpoint) ==
    /\ Step
    /\ UNCHANGED <<external_activity, connection_count, sessions, known_hosts, matched>>
    /\ \E g \in {get_seen_entity(Model, endpoint)} :
       LET s == g.ent
       IN  /\ SetModel(g.m)
           /\ IF IsService(s)
              THEN /\ events' = <<HostChange(get_parent_host(s))>>
                   /\ call' = Recorded([NoCall EXCEPT !.op = "service_scan", !.address = endpoint,
                                             !.node = s])
              ELSE /\ events' = <<>>
                   /\ call' = Recorded([NoCall EXCEPT !.op = "service_scan", !.address = endpoint,
                                             !.raised = TRUE])

\* Service.is_tcp_service
is_tcp_service(n) == n.proto = "tcp"

\* "only server TCP services are scannable" (inspector.py:211-215)
Scannable(m, c) ==
    /\ ~(client_side(c) \/ ~is_tcp_service(c))
    /\ is_relevant(m.status[c])

\* an address counts only as it is written
InScan_Exact(c, scanHost, endpoints) ==
    \E a \in ServiceAddresses(c) : a \in endpoints

\* the port alone decides
InScan_PortOnly(c, scanHost, endpoints) ==
    \E a \in ServiceAddresses(c) : \E e \in endpoints : e.port = a.port

\* the address loop (inspector.py:216-220)
InScan(c, scanHost, endpoints) ==
    \E a \in ServiceAddresses(c) :
        \/ a \in endpoints
        \/ is_wildcard(a) /\ change_host(a, scanHost) \in endpoints

\* a missing service is only inconclusive
MissingVerdict_Incon == "Incon"

\* verdict of a service that the scan did not find (inspector.py:223)
MissingVerdict == "Fail"

HostScans == {[host |-> HostAddress("ip2"), endpoints |-> {}],
              [host |-> HostAddress("ip2"), endpoints |-> {EndpointAddress("ip2", "tcp", 1234)}],
              [host |-> HostAddress("ip2"), endpoints |-> {EndpointAddress("ip2", "tcp", 2234),
                                                           EndpointAddress("ip2", "udp", 1234)}],
              [host |-> EndpointAddress("ip2", "tcp", 1234), endpoints |-> {}],
              [host |-> HostAddress("ip9"), endpoints |-> {}]}

\* Inspector.host_scan (inspector.py:207-226)
HostScan(scan) ==
    /\ Step
    /\ UNCHANGED <<external_activity, connection_count, sessions, matched>>
    /\ \E g \in {get_endpoint(Model, scan.host)} :
       LET host == g.ent
           failed == {c \in children(g.m, host) :
                        Scannable(g.m, c) /\ ~InScan(c, scan.host, scan.endpoints)}
           m1 == [g.m EXCEPT !.properties = [n \in DOMAIN @ |->
                     IF n \in failed THEN set_property(@[n], EXPECTED, MissingVerdict) ELSE @[n]]]
       IN  IF ~IsHost(host)
           THEN /\ SetModel(g.m)
                /\ UNCHANGED known_hosts
                /\ events' = <<>>
                /\ call' = Recorded([NoCall EXCEPT !.op = "host_scan", !.address = scan.host,
                                          !.endpoints = scan.endpoints, !.raised = TRUE])
           ELSE /\ SetModel(m1)
                /\ known_hosts' = known_hosts \cup {host}
                /\ events' = <<HostChange(host)>>
                /\ call' = Recorded([NoCall EXCEPT !.op = "host_scan", !.address = scan.host,
                                          !.endpoints = scan.endpoints, !.node = host])

Next ==
    \/ \E flow \in Flows : Connection(flow) /\ Idle
    \/ \E event \in NameEvents : Name(event) /\ Idle
    \/ \E s \in UpdateNodes, key \in UpdateKeys : PropertyUpdate(s, key, "Fail") /\ Idle
    \/ \E c \in UpdateConns, key \in UpdateKeys : PropertyUpdateConn(c, key, "Fail") /\ Idle
    \/ \E add \in UpdateAddresses, key \in UpdateKeys :
          PropertyAddressUpdate(add, key, "Fail") /\ Idle
    \/ \E endpoint \in ScanEndpoints : ServiceScan(endpoint) /\ Idle
    \/ \E scan \in HostScans : HostScan(scan) /\ Idle
    \/ Reset /\ Idle

Spec == Init /\ [][Next]_vars

\* ----------------------------------------------------- the databases alone
\* no system is inspected
NoSystem ==
    /\ ents = {}
    /\ status = [n \in {} |-> "Expected"]
    /\ properties = [n \in {} |-> NoProps]
    /\ addresses = [n \in {} |-> {}]
    /\ external_activity = [n \in {} |-> BANNED]
    /\ conns = {}
    /\ cstatus = [c \in {} |-> "Expected"]
    /\ cproperties = [c \in {} |-> NoProps]
    /\ connection_count = [c \in {} |-> 0]
    /\ sessions = [f \in {} |-> FALSE]
    /\ known_hosts = {}
    /\ matched = [f \in {} |-> [conn |-> NoConn, reply |-> FALSE]]
    /\ events = <<>>
    /\ call = NoCall
    /\ steps = 0

\* a database of either kind on an empty store
InitIds ==
    /\ NoSystem
    /\ db \in {"memory", "sql"}
    /\ InitDb
    /\ limit = IdSteps

\* get_id of the database (entity_database.py:66-71, sql_database.py:159-207)
GetId(entity) ==
    /\ Step
    /\ UNCHANGED <<launcher, ivars, db, heard>>
    /\ IF db = "memory"
       THEN \E r \in {InMemory_get_id(mem, entity)} :
               /\ mem' = r.db
               /\ sql' = sql
               /\ call' = [NoCall EXCEPT !.op = "get_id", !.object = entity, !.id = r.id]
       ELSE \E r \in {SQL_get_id(sql, entity)} :
               /\ sql' = r.db
               /\ mem' = mem
               /\ call' = [NoCall EXCEPT !.op = "get_id", !.object = entity, !.id = r.id]

\* get_entity of the database (entity_database.py:73-74, sql_database.py:218-219)
GetEntity(id_value) ==
    /\ Step
    /\ UNCHANGED <<launcher, ivars, db, heard, mem, sql>>
    /\ \E r \in {IF db = "memory" THEN InMemory_get_entity(mem, id_value)
                  ELSE SQL_get_entity(sql, id_value)} :
          call' = [NoCall EXCEPT !.op = "get_entity", !.id = id_value, !.object = r.entity,
                                 !.raised = r.raised]

\* the next run: a new SQLDatabase on the store of the last one
\* (tests/test_db.py:16, 22, 28)
Restart ==
    /\ Step
    /\ db = "sql"
    /\ UNCHANGED <<launcher, ivars, db, heard, mem>>
    /\ sql' = SQLDatabase(sql.rows, sql.events)
    /\ call' = [NoCall EXCEPT !.op = "restart"]

NextIds ==
    \/ \E entity \in DbEntities : GetId(entity)
    \/ \E id_value \in TryIds : GetEntity(id_value)
    \/ Restart

SpecIds == InitIds /\ [][NextIds]_vars

\* a database of either kind with no event
InitTrail ==
    /\ NoSystem
    /\ db \in {"memory", "sql"}
    /\ InitDb
    /\ limit = TrailSteps

\* put_event of the database (entity_database.py:76-79, sql_database.py:221-243);
\* neither raises
PutEvent(put) ==
    /\ Step
    /\ UNCHANGED <<launcher, ivars, db>>
    /\ \E event \in {DbEvent(put.type, put.label, steps + 1, NoFlow)} :
          /\ mem' = IF db = "memory" THEN InMemory_put_event(mem, event) ELSE mem
          /\ sql' = IF db = "sql" THEN SQL_put_event(sql, event) ELSE sql
          /\ call' = [NoCall EXCEPT !.op = "put_event", !.event = event]
    /\ heard' = [heard EXCEPT !.replaying = FALSE]

\* reset of the database (entity_database.py:50-52, sql_database.py:153-154);
\* the filter and what next_pending returns from now on are kept for the record
DbReset(source_filter) ==
    /\ Step
    /\ UNCHANGED <<launcher, ivars, db>>
    /\ mem' = IF db = "memory" THEN InMemory_reset(mem, source_filter) ELSE mem
    /\ sql' = IF db = "sql" THEN SQL_reset(sql, source_filter) ELSE sql
    /\ call' = [NoCall EXCEPT !.op = "db_reset"]
    /\ heard' = [heard EXCEPT !.replaying = TRUE, !.replay = <<>>, !.filter = source_filter]

\* next_pending of the database (entity_database.py:54-64, sql_database.py:156-157)
NextPending ==
    /\ Step
    /\ UNCHANGED <<launcher, ivars, db>>
    /\ \E r \in {IF db = "memory" THEN InMemory_next_pending(mem) ELSE SQL_next_pending(sql)} :
          /\ mem' = IF db = "memory" THEN r.db ELSE mem
          /\ sql' = IF db = "sql" THEN r.db ELSE sql
          /\ call' = [NoCall EXCEPT !.op = "next_pending", !.event = r.event]
          /\ heard' = [heard EXCEPT !.replay = Append(@, r.event)]

\* read_events of the SQL database (sql_database.py:120-151)
ReadEvents ==
    /\ Step
    /\ db = "sql"
    /\ UNCHANGED <<launcher, ivars, db, mem, sql, heard>>
    /\ call' = [NoCall EXCEPT !.op = "read_events", !.read = SQL_read_events(sql.events)]

NextTrail ==
    \/ \E put \in Puts : PutEvent(put)
    \/ \E source_filter \in Filters : DbReset(source_filter)
    \/ NextPending
    \/ ReadEvents

SpecTrail == InitTrail /\ [][NextTrail]_vars

\* ----------------------------------------------------- Registry
\* The registry keeps every event in its database before the inspector gets
\* it, and replays the stored events to the inspector after a reset
\* (tests/test_listener.py:57-76).
ReplayFlows == {IPFlow(e1, e2), IPFlow(e2, e1), IPFlow(e1b, e2), IPFlow(e9, e2),
                IPFlow(e1, e9), IPFlow(e1, eB)}
ReplayEntities == {DbHost(1), DbService(1)}

\* every evidence source enabled (reset(enable_all=True))
AllEnabled == [l \in Labels |-> TRUE]

\* the ends that update_seen_status or the verdict of an external target
\* put to "send" (inspector.py:99-119), whatever the learning of addresses
\* put there
SeenSend(k, flow, cc, sess) ==
    LET conn == k.conn
        reply == FlowReply(k)
        c_count == (IF conn \in DOMAIN cc THEN cc[conn] ELSE 0) + 1
        m1 == PromoteEnd(PromoteEnd(k.m, conn, conn[1]), conn, conn[2])
        ms0 == [m |-> m1, send |-> {}]
        ms1 == IF IsFirstFlow(c_count)
               THEN LearnPairs([ms0 EXCEPT !.m = ConnSeenNow(m1, conn)], conn, flow, reply)
               ELSE ms0
    IN  IF IsNewSession(sess, flow) THEN NewSession([ms1 EXCEPT !.send = {}], conn, reply).send
        ELSE {}

\* the notifications of a call, each with whether only the learning of an
\* address caused it
Tagged(evs, conn, seen) ==
    [i \in DOMAIN evs |->
        [event |-> evs[i],
         learned |-> /\ evs[i].kind = "host"
                     /\ \A n \in {conn[1], conn[2]} \cap seen :
                            get_parent_host(n) # evs[i].host]]

\* the notifications that were not caused by the learning of an address alone
RECURSIVE NotLearned(_)
NotLearned(tagged) ==
    IF tagged = <<>> THEN <<>>
    ELSE (IF Head(tagged).learned THEN <<>> ELSE <<Head(tagged).event>>)
         \o NotLearned(Tail(tagged))

InitReplay ==
    /\ InitSystem
    /\ limit = ReplaySteps

\* Registry.connection: the flow is stored and inspected; the listener hears
\* the notifications of the original run
RegConnection(flow) ==
    /\ ~heard.replaying
    /\ steps + Len(mem.trail) + 3 <= limit
    /\ \E seen \in {SeenSend(connection_w_ends(Model, external_activity, matched, flow),
                              flow, connection_count, sessions)} :
          /\ Connection(flow)
          /\ mem' = InMemory_put_event(mem, DbEvent("flow-ip", "pcap", steps + 1, flow))
          /\ heard' = [heard EXCEPT !.first = @ \o Tagged(events', call'.conn, seen)]
    /\ UNCHANGED <<launcher, db, sql>>

\* Registry.get_id: an ID of the database
RegGetId(entity) ==
    /\ Step
    /\ UNCHANGED <<launcher, ivars, db, sql, heard>>
    /\ \E r \in {InMemory_get_id(mem, entity)} :
          /\ mem' = r.db
          /\ call' = [NoCall EXCEPT !.op = "get_id", !.object = entity, !.id = r.id]

\* Registry.reset(enable_all=True): the database is rewound with every
\* source enabled and the inspector is reset (event_logger.py:66-69); a new
\* listener hears what follows
RegReset ==
    /\ Reset
    /\ mem' = InMemory_reset(mem, AllEnabled)
    /\ heard' = [heard EXCEPT !.replaying = TRUE, !.replay = <<>>, !.filter = AllEnabled]
    /\ UNCHANGED <<launcher, db, sql>>

\* Registry.do_task: the next pending event goes to the inspector;
\* do_all_tasks ends when there is none
RegDoTask ==
    /\ heard.replaying
    /\ \E r \in {InMemory_next_pending(mem)} :
          /\ r.event # NoEvent
          /\ Connection(r.event.flow)
          /\ mem' = r.db
          /\ heard' = [heard EXCEPT !.replay = @ \o events']
    /\ UNCHANGED <<launcher, db, sql>>

NextReplay ==
    \/ \E flow \in ReplayFlows : RegConnection(flow)
    \/ \E entity \in ReplayEntities : RegGetId(entity)
    \/ RegReset
    \/ RegDoTask

SpecReplay == InitReplay /\ [][NextReplay]_vars

\* ----------------------------------------------------- verdicts alone
\* the verdicts of up to two children or properties
VerdictLists == {<<>>} \cup {<<a>> : a \in Verdict} \cup {<<a, b>> : a, b \in Verdict}

InitVerdict ==
    /\ NoSystem
    /\ db = "memory"
    /\ InitDb
    /\ limit = VerdictSteps

\* Verdict.resolve(a, b)
Resolve(a, b) ==
    /\ Step
    /\ UNCHANGED <<launcher, ivars, db, mem, sql, heard>>
    /\ call' = [NoCall EXCEPT !.op = "resolve", !.verdicts = <<a, b>>, !.val = resolve(a, b)]

\* entity.get_verdict(cache) with a new cache (entity.py:57-66)
GetVerdict(verdicts) ==
    /\ Step
    /\ UNCHANGED <<launcher, ivars, db, mem, sql, heard>>
    /\ call' = [NoCall EXCEPT !.op = "get_verdict", !.verdicts = verdicts,
                              !.val = get_verdict(verdicts)]

NextVerdict ==
    \/ \E a, b \in Verdict : Resolve(a, b)
    \/ \E verdicts \in VerdictLists : GetVerdict(verdicts)

SpecVerdict == InitVerdict /\ [][NextVerdict]_vars

\* ----------------------------------------------------- Launcher
\* applications asked for, one more than there are ports
Apps == {"a.py", "b.py", "c.py"}

\* a function without one of its keys: set.remove, dict.pop
Pop(f, k) == [x \in DOMAIN f \ {k} |-> f[x]]

\* the first port of the range that is not taken (launcher.py:114-118)
free_port(clients) ==
    CHOOSE port \in client_port_range \ clients :
        \A other \in client_port_range \ clients : port <= other

InitLaunch ==
    /\ NoSystem
    /\ db = "memory"
    /\ InitDb
    /\ limit = LaunchSteps

\* Launcher.run_process up to its first await (launcher.py:108-122): the
\* lookup, the choice of the port and the registration run without a
\* suspension point, so one step of the event loop
run_process(app) ==
    /\ Step
    /\ IF app \in DOMAIN launcher.connected
       THEN \* already running
            /\ call' = [NoCall EXCEPT !.op = "run_process", !.name = app,
                                      !.id = launcher.connected[app], !.repeat = TRUE]
            /\ UNCHANGED launcher
       ELSE IF client_port_range \ launcher.clients = {}
       THEN \* No free ports available
            /\ call' = [NoCall EXCEPT !.op = "run_process", !.name = app, !.raised = TRUE]
            /\ UNCHANGED launcher
       ELSE LET client_port == free_port(launcher.clients)
            IN  /\ launcher' = [clients |-> launcher.clients \cup {client_port},
                                connected |-> (app :> client_port) @@ launcher.connected,
                                processes |-> (app :> [process |-> "starting", streams |-> ""])
                                                 @@ launcher.processes]
                /\ call' = [NoCall EXCEPT !.op = "run_process", !.name = app,
                                          !.id = client_port]
    /\ UNCHANGED <<ivars, db, mem, sql, heard>>

\* the rest of run_process (launcher.py:125-147): the subprocess is created,
\* the tasks that save its streams and wait_process are scheduled
create_subprocess_exec(app) ==
    /\ Step
    /\ app \in DOMAIN launcher.processes
    /\ launcher.processes[app].process = "starting"
    /\ launcher' = [launcher EXCEPT
                        !.processes[app] = [process |-> "running", streams |-> "saving"]]
    /\ call' = [NoCall EXCEPT !.op = "create_subprocess_exec", !.name = app,
                              !.id = launcher.connected[app]]
    /\ UNCHANGED <<ivars, db, mem, sql, heard>>

\* asyncio.create_subprocess_exec raises (launcher.py:125), as it does for an
\* application name with a null byte or when the system has no resources
\* left: run_process ends with the exception, nothing of lines 121-122 is
\* undone, no process and no task exist
create_subprocess_exec_raises(app) ==
    /\ Step
    /\ app \in DOMAIN launcher.processes
    /\ launcher.processes[app].process = "starting"
    /\ launcher' = [launcher EXCEPT !.processes = Pop(@, app)]
    /\ call' = [NoCall EXCEPT !.op = "create_subprocess_exec", !.name = app,
                              !.raised = TRUE]
    /\ UNCHANGED <<ivars, db, mem, sql, heard>>

\* the process of the application exits; process.wait() of wait_process
\* returns (launcher.py:134)
process_exits(app) ==
    /\ Step
    /\ app \in DOMAIN launcher.processes
    /\ launcher.processes[app].process = "running"
    /\ launcher' = [launcher EXCEPT !.processes[app].process = "exited"]
    /\ call' = [NoCall EXCEPT !.op = "process_exits", !.name = app,
                              !.id = launcher.connected[app]]
    /\ UNCHANGED <<ivars, db, mem, sql, heard>>

\* save_stream_to_file raises (launcher.py:149-156), as it does when the log
\* file cannot be opened or written: wait_process raises at its await
\* (launcher.py:135-136), once the process has exited, and ends before lines
\* 137-138
save_stream_to_file_raises(app) ==
    /\ Step
    /\ app \in DOMAIN launcher.processes
    /\ launcher.processes[app].streams = "saving"
    /\ launcher' = [launcher EXCEPT !.processes[app].streams = "raised"]
    /\ call' = [NoCall EXCEPT !.op = "save_stream_to_file", !.name = app,
                              !.raised = TRUE]
    /\ UNCHANGED <<ivars, db, mem, sql, heard>>

\* wait_process after the process has exited and the streams are saved
\* (launcher.py:135-138): the port and the registration are released
wait_process(app) ==
    /\ Step
    /\ app \in DOMAIN launcher.processes
    /\ launcher.processes[app] = [process |-> "exited", streams |-> "saving"]
    /\ launcher' = [clients |-> launcher.clients \ {launcher.connected[app]},
                    connected |-> Pop(launcher.connected, app),
                    processes |-> Pop(launcher.processes, app)]
    /\ call' = [NoCall EXCEPT !.op = "wait_process", !.name = app,
                              !.id = launcher.connected[app]]
    /\ UNCHANGED <<ivars, db, mem, sql, heard>>

NextLaunch ==
    \/ \E app \in Apps : run_process(app)
    \/ \E app \in Apps : create_subprocess_exec(app)
    \/ \E app \in Apps : create_subprocess_exec_raises(app)
    \/ \E app \in Apps : process_exits(app)
    \/ \E app \in Apps : save_stream_to_file_raises(app)
    \/ \E app \in Apps : wait_process(app)

SpecLaunch == InitLaunch /\ [][NextLaunch]_vars

\* ----------------------------------------------------- external targets
\* flows to a host outside the declared model, which is also seen behind
\* another hardware address
e9g == End("hw7", "ip9", 1100)
ExternalFlows == {IPFlow(e2, e9), IPFlow(e2c, e9), IPFlow(e1, e9), IPFlow(e1, e9g),
                  IPFlow(e9, e2)}

InitExternal ==
    /\ InitSystem
    /\ limit = ExternalSteps

NextExternal ==
    \/ \E flow \in ExternalFlows : Connection(flow) /\ Idle
    \/ Reset /\ Idle

SpecExternal == InitExternal /\ [][NextExternal]_vars

\* runs of flows and resets
InitFlow ==
    /\ InitSystem
    /\ limit = FlowSteps

NextFlow ==
    \/ \E flow \in Flows : Connection(flow) /\ Idle
    \/ Reset /\ Idle

SpecFlow == InitFlow /\ [][NextFlow]_vars

\* runs of flows between addresses outside the declared model, and resets
InitPair ==
    /\ InitSystem
    /\ limit = PairSteps

NextPair ==
    \/ \E flow \in PairFlows : Connection(flow) /\ Idle
    \/ Reset /\ Idle

SpecPair == InitPair /\ [][NextPair]_vars

\* ===================================================== properties
VerdictOf(n) == get_expected_verdict(properties[n])
CVerdictOf(c) == get_expected_verdict(cproperties[c])
Range(seq) == {seq[i] : i \in DOMAIN seq}
Returned == call'.op = "connection" /\ ~call'.raised

\* C1: a second connection call with the flow just processed calls no
\* host_change or connection_change listener and leaves the status and the
\* expected verdict of the connection and of both its ends as they were.
C1_Idempotent ==
    [][(call'.op = "connection" /\ call'.repeat) =>
         LET c == call.conn
         IN  /\ events' = <<>>
             /\ cstatus'[c] = cstatus[c]
             /\ get_expected_verdict(cproperties'[c]) = CVerdictOf(c)
             /\ \A n \in {c[1], c[2]} :
                   /\ status'[n] = status[n]
                   /\ get_expected_verdict(properties'[n]) = VerdictOf(n)]_vars

C1_Witness ==
    call.op = "connection" /\ call.repeat /\ call.conn \notin originalConns

\* C2: when a forward flow A->B has been processed, a flow B->A with the
\* address tuples swapped gets the connection of A->B, is classified as a
\* reply, and no connection is created for it.
C2_ReverseIsReply ==
    [][(Returned /\ Reverse(call'.flow) \in DOMAIN sessions
          /\ ~sessions[Reverse(call'.flow)]) =>
         /\ call'.reply
         /\ call'.conn = matched[Reverse(call'.flow)].conn
         /\ conns' = conns]_vars

C2_Witness ==
    /\ call.op = "connection" /\ call.reply
    /\ Reverse(call.flow) \in DOMAIN sessions
    /\ call.flow \in DOMAIN sessions /\ sessions[call.flow]

\* C3 as stated: no call, reset included, sets a status that is not
\* Placeholder back to Placeholder.
C3_Original ==
    [][/\ \A n \in ents : status[n] # "Placeholder" => status'[n] # "Placeholder"
       /\ \A c \in conns : cstatus[c] # "Placeholder" => cstatus'[c] # "Placeholder"]_vars

\* C3 amended: no connection, name, property_update, property_address_update,
\* service_scan or host_scan call sets a status that is not Placeholder back
\* to Placeholder.
C3_NoEventToPlaceholder ==
    [][call'.op # "reset" =>
         /\ \A n \in ents : status[n] # "Placeholder" => status'[n] # "Placeholder"
         /\ \A c \in conns : cstatus[c] # "Placeholder" => cstatus'[c] # "Placeholder"]_vars

C3_Witness ==
    /\ call.op = "name" /\ steps >= 2
    /\ X9 \in ents /\ status[X9] = "External" /\ call.node = X9

\* C4: after a connection call that returns, the connection and both its ends
\* have a status other than Placeholder, and an end that was Placeholder has
\* the status of the connection.
C4_EndsResolved ==
    [][Returned =>
         LET c == call'.conn
         IN  /\ cstatus'[c] # "Placeholder"
             /\ \A n \in {c[1], c[2]} :
                   /\ status'[n] # "Placeholder"
                   /\ (n \in ents /\ status[n] = "Placeholder") => status'[n] = cstatus'[c]]_vars

C4_Witness ==
    call.op = "connection" /\ ~call.raised /\ call.promoted # {}

\* the call is a flow of an Expected connection between Expected entities
ExpectedFlow ==
    /\ Returned
    /\ cstatus'[call'.conn] = "Expected"
    /\ \A n \in {call'.conn[1], call'.conn[2]} :
          status'[n] = "Expected" /\ status'[get_parent_host(n)] = "Expected"

\* C5 as stated: the first forward flow of an Expected connection makes the
\* connection and the source Pass, a forward flow leaves the verdict of the
\* target alone, and a reply makes the target Pass.
C5_Original ==
    [][ExpectedFlow =>
         LET c == call'.conn
         IN  /\ c \notin DOMAIN connection_count =>
                   /\ ~call'.reply
                   /\ get_expected_verdict(cproperties'[c]) = "Pass"
                   /\ get_expected_verdict(properties'[c[1]]) = "Pass"
             /\ ~call'.reply => get_expected_verdict(properties'[c[2]]) = VerdictOf(c[2])
             /\ call'.reply => get_expected_verdict(properties'[c[2]]) = "Pass"]_vars

\* C5 amended: as C5, for a target that is not a multicast or broadcast
\* service.
C5_TargetSeenOnReply ==
    [][ExpectedFlow =>
         LET c == call'.conn
         IN  /\ c \notin DOMAIN connection_count =>
                   /\ ~call'.reply
                   /\ get_expected_verdict(cproperties'[c]) = "Pass"
                   /\ get_expected_verdict(properties'[c[1]]) = "Pass"
             /\ (~call'.reply /\ ~is_multicast(c[2])) =>
                   get_expected_verdict(properties'[c[2]]) = VerdictOf(c[2])
             /\ call'.reply => get_expected_verdict(properties'[c[2]]) = "Pass"]_vars

C5_Witness ==
    /\ call.op = "connection" /\ call.reply /\ call.conn = <<D1, D2u>>
    /\ D2u \in DOMAIN call.was /\ call.was[D2u] = None
    /\ VerdictOf(D2u) = "Pass" /\ VerdictOf(D1) = "Pass"

\* C6: a flow from an address that no host has, to a declared service of a
\* host whose external activity is below Open, creates a host with status
\* Unexpected and gives a connection with status Unexpected and verdict Fail.
C6_UnknownSource ==
    [][(/\ Returned
        /\ FindHost(Model, call'.flow.source) = NoNode
        /\ LET th == FindHost(Model, call'.flow.target)
           IN  /\ th \in originals
               /\ Service(th.h, call'.flow.proto, call'.flow.target.port) \in originals
               /\ external_activity[th] < OPEN) =>
         LET c == call'.conn
             h == get_parent_host(c[1])
         IN  /\ h \notin ents /\ h \in ents'
             /\ status'[h] = "Unexpected"
             /\ cstatus'[c] = "Unexpected"
             /\ get_expected_verdict(cproperties'[c]) = "Fail"]_vars

C6_Witness ==
    /\ call.op = "connection" /\ call.conn = <<X9, D2u>> /\ ~call.reply
    /\ external_activity[D2] = PASSIVE
    /\ connection_count[call.conn] = 1
    /\ status[X9] = "Unexpected" /\ CVerdictOf(call.conn) = "Fail"

\* the services of the scanned host that the scan should have found
Missing(requireTcp) ==
    {c \in ents' : /\ IsService(c) /\ get_parent_host(c) = call'.node
                   /\ is_relevant(status'[c]) /\ ~client_side(c)
                   /\ requireTcp => is_tcp_service(c)
                   /\ \A a \in ServiceAddresses(c) :
                         /\ a \notin call'.endpoints
                         /\ is_wildcard(a) =>
                               change_host(a, call'.address) \notin call'.endpoints}

\* C7 as stated: host_scan makes Fail every relevant server service of the
\* host that has no address in the endpoint set.
C7_Original ==
    [][(call'.op = "host_scan" /\ ~call'.raised) =>
         \A c \in Missing(FALSE) : get_expected_verdict(properties'[c]) = "Fail"]_vars

\* C7 amended: host_scan makes Fail every relevant server TCP service of the
\* host that has no address in the endpoint set.
C7_MissingTcpFails ==
    [][(call'.op = "host_scan" /\ ~call'.raised) =>
         \A c \in Missing(TRUE) : get_expected_verdict(properties'[c]) = "Fail"]_vars

C7_Witness ==
    /\ call.op = "host_scan" /\ ~call.raised /\ call.endpoints # {}
    /\ \E c \in DOMAIN call.was : IsService(c) /\ VerdictOf(c) = "Fail"

\* the call is a host scan of the backend that found nothing
EmptyScan ==
    call'.op = "host_scan" /\ ~call'.raised /\ call'.node = D2 /\ call'.endpoints = {}

\* C8 as stated: a host scan with an empty endpoint set turns the Pass of the
\* UDP service into Fail.
C8_Original ==
    [][(EmptyScan /\ VerdictOf(D2u) = "Pass") =>
         get_expected_verdict(properties'[D2u]) = "Fail"]_vars

\* C8 amended: a host scan with an empty endpoint set turns the Pass of the
\* TCP service into Fail and leaves the Pass of the UDP service.
C8_TcpPassToFail ==
    [][EmptyScan =>
         /\ VerdictOf(D2t) = "Pass" => get_expected_verdict(properties'[D2t]) = "Fail"
         /\ VerdictOf(D2u) = "Pass" => get_expected_verdict(properties'[D2u]) = "Pass"]_vars

C8_Witness ==
    /\ call.op = "host_scan" /\ ~call.raised /\ call.node = D2 /\ call.endpoints = {}
    /\ D2t \in DOMAIN call.was /\ call.was[D2t] = "Pass"
    /\ VerdictOf(D2t) = "Fail"

\* the hosts and connections that a call changed
ChangedNodes ==
    {n \in ents' : \/ n \notin ents
                   \/ status'[n] # status[n]
                   \/ properties'[n] # properties[n]
                   \/ IsHost(n) /\ addresses'[n] # addresses[n]}
ChangedHosts == {get_parent_host(n) : n \in ChangedNodes}
ChangedConns ==
    {c \in conns' : \/ c \notin conns
                    \/ cstatus'[c] # cstatus[c]
                    \/ cproperties'[c] # cproperties[c]}

\* C9: the listener calls of one event call are one for every host and
\* connection that the call changed: none twice, none for what did not change.
C9_OnePerChanged ==
    [][(call'.op # "reset" /\ ~call'.raised) =>
         /\ \A i, j \in DOMAIN events' : i # j => events'[i] # events'[j]
         /\ {e.host : e \in {x \in Range(events') : x.kind = "host"}} = ChangedHosts
         /\ {e.conn : e \in {x \in Range(events') : x.kind = "conn"}} = ChangedConns]_vars

\* C10: a call that raises has changed no status, property, flow counter or
\* session.
C10_AllOrNothing ==
    [][call'.raised =>
         /\ \A n \in ents : status'[n] = status[n] /\ properties'[n] = properties[n]
         /\ \A c \in conns : cstatus'[c] = cstatus[c] /\ cproperties'[c] = cproperties[c]
         /\ connection_count' = connection_count
         /\ sessions' = sessions]_vars

\* the properties of an entity other than its expected verdict
Recorded_(props) == [k \in DOMAIN props \ {EXPECTED} |-> props[k]]
\* the properties a host or service had before the call, none if it is new
PropsBefore(n) == IF n \in ents THEN properties[n] ELSE NoProps

\* C11: a property_update for an entity or connection with status
\* Placeholder or Unexpected changes no property and calls no listener.
C11_UpdateDropped ==
    [][(/\ call'.op = "property_update"
        /\ \/ call'.entity # NoNode /\ status[call'.entity] \in {"Placeholder", "Unexpected"}
           \/ call'.conn # NoConn /\ cstatus[call'.conn] \in {"Placeholder", "Unexpected"}) =>
         /\ properties' = properties
         /\ cproperties' = cproperties
         /\ events' = <<>>]_vars

C11_Witness ==
    /\ call.op = "property_update" /\ call.entity = X9 /\ call.key = "prop-a"
    /\ status[X9] = "Unexpected" /\ events = <<>>

\* C12: a property_address_update for an address of an entity with status
\* Unexpected or Placeholder records no property on that entity.
C12_AddressUpdateDropped ==
    [][(/\ call'.op = "property_address_update"
        /\ status'[call'.node] \in {"Placeholder", "Unexpected"}) =>
         Recorded_(properties'[call'.node]) = Recorded_(PropsBefore(call'.node))]_vars

\* C13: name() for a host that is not known yet and Unexpected: when some
\* peer has external activity below Open and does not ignore the name, the
\* host stays Unexpected with verdict Fail; otherwise the host becomes
\* External and its properties are left alone.
C13_NameRule ==
    [][(/\ call'.op = "name"
        /\ call'.node \notin known_hosts
        /\ call'.node \in ents => status[call'.node] = "Unexpected") =>
         LET h == call'.node
         IN  IF \E pe \in call'.peers :
                    /\ external_activity[get_parent_host(pe)] < OPEN
                    /\ call'.name \notin ignore_name_requests(get_parent_host(pe))
             THEN /\ status'[h] = "Unexpected"
                  /\ get_expected_verdict(properties'[h]) = "Fail"
             ELSE /\ status'[h] = "External"
                  /\ properties'[h] = PropsBefore(h)]_vars

C13_Witness ==
    /\ call.op = "name" /\ call.name = "n9" /\ call.peers = {D1}
    /\ steps = 1 /\ call.node = X9
    /\ status[call.node] = "Unexpected" /\ VerdictOf(call.node) = "Fail"

\* C14: connection() puts the properties of the flow into the properties of
\* the connection when the connection is Expected; the properties of a
\* connection of any other status get nothing but the expected verdict.
C14_FlowProperties ==
    [][Returned =>
         LET c == call'.conn
             fp == FlowProperties(call'.flow)
             before == IF c \in conns THEN cproperties[c] ELSE NoProps
         IN  IF cstatus'[c] = "Expected"
             THEN \A key \in DOMAIN fp :
                     key \in DOMAIN cproperties'[c] /\ cproperties'[c][key] = fp[key]
             ELSE Recorded_(cproperties'[c]) = Recorded_(before)]_vars

C14_Witness ==
    /\ call.op = "connection" /\ ~call.raised
    /\ FlowProperties(call.flow) # NoProps
    /\ cstatus[call.conn] = "Expected"
    /\ PropGet(cproperties[call.conn], "prop-a") = "Pass"

\* the ends of a flow that no host has an address of
UnknownEnds(flow) == {e \in {flow.source, flow.target} : FindHost(Model, e) = NoNode}

ForeignFlow ==
    /\ Returned
    /\ \E e \in {call'.flow.source, call'.flow.target} :
          /\ FindHost(Model, e) = NoNode
          /\ \E o \in {call'.flow.source, call'.flow.target} \ {e} :
                /\ FindHost(Model, o) \in originals
                /\ external_activity[FindHost(Model, o)] = UNLIMITED

\* C16: a flow between a declared host of unlimited external activity and an
\* undeclared address, in either direction, gives a connection and a new host
\* with status External and no verdict, and gives no entity the verdict Fail.
C16_ExternalPeer ==
    [][ForeignFlow =>
         /\ cstatus'[call'.conn] = "External"
         /\ get_expected_verdict(cproperties'[call'.conn]) = "Undefined"
         /\ Cardinality(hosts(Model)' \ hosts(Model)) = 1
         /\ \A h \in hosts(Model)' \ hosts(Model) :
               status'[h] = "External" /\ get_expected_verdict(properties'[h]) = "Undefined"
         /\ \A n \in ents' : get_expected_verdict(properties'[n]) = "Fail" =>
               n \in ents /\ VerdictOf(n) = "Fail"
         /\ \A c \in conns' : get_expected_verdict(cproperties'[c]) = "Fail" =>
               c \in conns /\ CVerdictOf(c) = "Fail"]_vars

C16_Witness ==
    /\ call.op = "connection" /\ steps = 1 /\ external_activity[D2] = UNLIMITED
    /\ get_parent_host(call.conn[2]) = X9
    /\ cstatus[call.conn] = "External" /\ CVerdictOf(call.conn) = "Undefined"
    /\ status[X9] = "External" /\ VerdictOf(X9) = "Undefined"

\* C17: after set_seen_now an Expected entity has the expected verdict Pass
\* and an Unexpected entity has Fail, whatever verdict it had.
C17_SeenVerdict ==
    [][call'.op = "set_seen_now" =>
         LET n == call'.node
         IN  /\ status'[n] = "Expected" => get_expected_verdict(properties'[n]) = "Pass"
             /\ status'[n] = "Unexpected" => get_expected_verdict(properties'[n]) = "Fail"]_vars

C17_Witness ==
    /\ call.op = "set_seen_now" /\ status[call.node] = "Expected"
    /\ call.node \in DOMAIN call.was /\ call.was[call.node] = "Fail"
    /\ VerdictOf(call.node) = "Pass"

\* C18: set_seen_now returns a verdict only when it changed the expected
\* verdict to it; for an entity that is Expected and Pass, Unexpected and
\* Fail, External or Placeholder it returns none and changes no property; a
\* second set_seen_now right after a first returns none.
C18_ChangeReported ==
    [][call'.op = "set_seen_now" =>
         LET n == call'.node
             v == call'.val
             old == PropGet(properties[n], EXPECTED)
         IN  /\ v # None => v # old /\ PropGet(properties'[n], EXPECTED) = v
             /\ (\/ status[n] = "Expected" /\ old = "Pass"
                 \/ status[n] = "Unexpected" /\ old = "Fail"
                 \/ status[n] \in {"External", "Placeholder"}) =>
                   v = None /\ properties' = properties
             /\ call'.repeat => v = None /\ properties' = properties]_vars

C18_Witness ==
    /\ call.op = "set_seen_now" /\ call.repeat /\ call.val = None
    /\ status[call.node] = "Unexpected" /\ VerdictOf(call.node) = "Fail"

\* C19: host_scan leaves the expected verdict of a service of the scanned
\* host alone when an address of the service is in the endpoint set, also
\* when the address is a wildcard that is there with the scanned host put in.
C19_FoundUntouched ==
    [][(call'.op = "host_scan" /\ ~call'.raised) =>
         \A c \in children(Model, call'.node) :
            (\E a \in ServiceAddresses(c) :
                \/ a \in call'.endpoints
                \/ is_wildcard(a) /\ change_host(a, call'.address) \in call'.endpoints) =>
               get_expected_verdict(properties'[c]) = VerdictOf(c)]_vars

C19_Witness ==
    /\ call.op = "host_scan" /\ ~call.raised /\ call.node = D2
    /\ EndpointAddress("ip2", "tcp", 1234) \in call.endpoints
    /\ D2t \notin DOMAIN call.was /\ VerdictOf(D2t) = "Pass"

\* the address has no entity in the declared model
Undeclared(a) ==
    LET h == HostByAddress(Model, a.host)
    IN  h \notin originals \/ (a.proto # "" /\ Service(h.h, a.proto, a.port) \notin originals)

UpdateHad(key) ==
    IF call'.op = "property_address_update" THEN key \in DOMAIN PropsBefore(call'.node)
    ELSE IF call'.conn # NoConn THEN key \in DOMAIN cproperties[call'.conn]
    ELSE key \in DOMAIN properties[call'.entity]
UpdateHas(key) ==
    IF call'.op = "property_address_update" THEN key \in DOMAIN properties'[call'.node]
    ELSE IF call'.conn # NoConn THEN key \in DOMAIN cproperties'[call'.conn]
    ELSE key \in DOMAIN properties'[call'.entity]

\* C21: a property_update or property_address_update with a model-only key
\* that the entity or connection does not have leaves it without the key and
\* calls no listener.
C21_ModelKeyIgnored ==
    [][(/\ call'.op \in {"property_update", "property_address_update"}
        /\ call'.key = "prop-m"
        /\ ~UpdateHad("prop-m")) =>
         /\ ~UpdateHas("prop-m")
         /\ events' = <<>>]_vars

C21_Witness ==
    /\ call.op = "property_address_update" /\ call.key = "prop-m"
    /\ call.node = D2t /\ status[D2t] = "Expected"
    /\ "prop-m" \notin DOMAIN properties[D2t] /\ events = <<>>

\* C22: the listener calls of one connection call are host_change of the
\* host of the source, then host_change of the host of the target, then
\* connection_change of the connection, each at most once and nothing else;
\* no connection_change comes before a host_change.
C22_NotificationOrder ==
    [][Returned =>
         LET c == call'.conn
             sh == HostChange(get_parent_host(c[1]))
             th == HostChange(get_parent_host(c[2]))
         IN  /\ \A i \in DOMAIN events' : events'[i] \in {sh, th, ConnectionChange(c)}
             /\ \A i, j \in DOMAIN events' :
                   i < j => /\ events'[i].kind = "host"
                            /\ (events'[i] = th /\ events'[j] = sh) => sh = th
             /\ Len(events') <= 3]_vars

C22_Witness ==
    /\ call.op = "connection" /\ call.conn = <<D1, D2u>>
    /\ events = <<HostChange(D1), HostChange(D2), ConnectionChange(<<D1, D2u>>)>>

\* the flows differ in the port of the source and in nothing else
SourcePortOnly(f, g) ==
    /\ f.target = g.target /\ f.proto = g.proto
    /\ f.source.hw = g.source.hw /\ f.source.ip = g.source.ip
    /\ f.source.port # g.source.port

\* C23: a flow that is a new session of a connection which an earlier flow
\* with another source port has been processed for, in the same direction,
\* calls no host_change and no connection_change listener.
C23_NewPortSilent ==
    [][(/\ Returned
        /\ call'.flow \notin DOMAIN sessions
        /\ \E f \in DOMAIN sessions :
              /\ SourcePortOnly(f, call'.flow)
              /\ matched[f].conn = call'.conn
              /\ sessions[f] = call'.reply) =>
         events' = <<>>]_vars

C23_Witness ==
    /\ call.op = "connection" /\ call.flow = IPFlow(e1b, e2) /\ call.conn = <<D1, D2u>>
    /\ IPFlow(e1, e2) \in DOMAIN sessions /\ ~sessions[IPFlow(e1, e2)]
    /\ connection_count[call.conn] = 2 /\ events = <<>>

\* the IDs that get_id has given in this run, by entity
GivenIds == IF db = "memory" THEN mem.ids ELSE sql.id_cache
\* the entity that the database has for an ID after the call
EntityAfter(i) ==
    IF db = "memory" THEN InMemory_get_entity(mem', i).entity
    ELSE SQL_get_entity(sql', i).entity

\* C26: get_id gives an entity the integer it gave it before; two entities
\* of one model that are not the same never have the same integer; and
\* get_entity of the integer of an entity is that entity.
C26_IdsInvertible ==
    [][call'.op = "get_id" =>
         /\ call'.object \in DOMAIN GivenIds => call'.id = GivenIds[call'.object]
         /\ \A x, y \in DOMAIN GivenIds' :
               (x # y /\ x.inst = y.inst) => GivenIds'[x] # GivenIds'[y]
         /\ \A e \in DOMAIN GivenIds' :
               e.inst = call'.object.inst => Structure(EntityAfter(GivenIds'[e])) = Structure(e)]_vars

\* C27: get_entity of an integer that get_id has given to no entity of this
\* run returns no entity and does not raise, whatever the integer is.
C27_UnknownIdNotFound ==
    [][(/\ call'.op = "get_entity"
        /\ call'.id \notin {GivenIds[e] : e \in DOMAIN GivenIds}) =>
         /\ ~call'.raised
         /\ call'.object = NoEntity]_vars

\* the rows of the store with the structural key of an entity: the name of a
\* host, name and ID of the host of a service or component, the IDs of the
\* source and target of a connection
HostRows(rows, e) ==
    {r \in rows : r.name = e.name /\ r.source = NoId /\ r.target = NoId}
OwnedRows(rows, e) ==
    {r \in rows : /\ r.name = e.name /\ r.target = NoId
                  /\ r.source \in {h.id : h \in HostRows(rows, DbOwner(e))}}
KeyRows(rows, e) ==
    IF e.type = "host" THEN HostRows(rows, e)
    ELSE IF e.type \in {"service", "component"} THEN OwnedRows(rows, e)
    ELSE IF e.type = "connection"
    THEN {r \in rows : /\ r.source \in {h.id : h \in HostRows(rows, DbSource(e))}
                       /\ r.target \in {t.id : t \in OwnedRows(rows, DbTarget(e))}}
    ELSE {}

\* C28: with an SQL store, get_id of an entity whose structural key has a row
\* in the store, written in this run or in one before it, returns the ID of
\* the row, whichever object stands for the entity and whatever was
\* registered before it.
C28_StoredIds ==
    [][(call'.op = "get_id" /\ db = "sql") =>
         \A r \in KeyRows(sql.rows, call'.object) : call'.id = r.id]_vars

C28_Witness ==
    /\ db = "sql" /\ call.op = "get_id" /\ call.object = DbService(2)
    /\ \A e \in DOMAIN sql.id_cache : e.inst = 2
    /\ DbSystem(2) \in DOMAIN sql.id_cache
    /\ \E r \in sql.rows : r.type = "connection" /\ r.target = call.id

\* the events that the database has stored
Stored == IF db = "memory" THEN mem.trail ELSE sql.events
\* the stored events of the sources that the filter has enabled, as they came
RECURSIVE Enabled(_, _)
Enabled(stored, source_filter) ==
    IF stored = <<>> THEN <<>>
    ELSE (IF Head(stored).label \in DOMAIN source_filter /\ source_filter[Head(stored).label]
          THEN <<Head(stored)>> ELSE <<>>)
         \o Enabled(Tail(stored), source_filter)

\* C29: the next_pending calls that follow a reset with a filter return, one
\* after the other, the stored events whose source label the filter has as
\* enabled, in the order they were put, and none after the last of them.
C29_FilteredReplay ==
    heard.replaying =>
        LET e == Enabled(Stored, heard.filter)
        IN  \A i \in DOMAIN heard.replay :
               heard.replay[i] = IF i <= Len(e) THEN e[i] ELSE NoEvent

\* C30: put_event for an event of a class that the database does not know
\* raises or stores the event.
C30_NoSilentDrop ==
    [][(call'.op = "put_event" /\ call'.event.type \notin EventTypes) =>
         \/ call'.raised
         \/ \E i \in DOMAIN Stored' : Stored'[i] = call'.event]_vars

C25_ResetTransient ==
    [][/\ call'.op = "reset" =>
            /\ DOMAIN connection_count' = {}
            /\ DOMAIN sessions' = {}
            /\ known_hosts' = {n \in ents' : IsHost(n)}
            /\ mem'.ids = mem.ids
            /\ mem'.reverse_id = mem.reverse_id
       /\ (call.op = "reset" /\ call'.op = "connection") =>
            /\ ~call'.raised
            /\ connection_count'[call'.conn] = 1
            /\ call'.flow \in DOMAIN sessions'
            /\ events' # <<>>
            /\ events'[Len(events')] = ConnectionChange(call'.conn)]_vars

\* a reset of a registry that has given IDs and counted two flows of a
\* connection, and then the replay of the first of them
C25_Witness ==
    /\ call.op = "connection"
    /\ heard.replaying
    /\ Len(heard.first) > 0
    /\ Len(mem.reverse_id) = 2
    /\ mem.cursor = 1
    /\ Len(mem.trail) >= 2
    /\ mem.trail[1].flow = mem.trail[2].flow
    /\ connection_count[call.conn] = 1

C32_MulticastSeenForward ==
    [][(/\ call'.op = "connection"
        /\ ~call'.raised
        /\ ~call'.reply
        /\ call'.flow \notin DOMAIN sessions
        /\ is_multicast(call'.conn[2])
        /\ status'[call'.conn[2]] = "Expected")
       => get_expected_verdict(properties'[call'.conn[2]]) = "Pass"]_vars

\* the multicast service has passed and no session is a reply
C32_Witness ==
    /\ call.op = "connection"
    /\ ~call.reply
    /\ call.conn = <<D1, MCu>>
    /\ get_expected_verdict(properties[MCu]) = "Pass"
    /\ \A f \in DOMAIN sessions : ~sessions[f]

\* C33: every event call of the inspector that does not raise returns the
\* entity it is about: the connection of a flow, the host of a name or host
\* scan, the service of a service scan, the target of a property update,
\* also when the update is ignored.
C33_ReturnsEntity ==
    [][(/\ call'.op \in {"connection", "name", "property_update", "property_address_update",
                         "service_scan", "host_scan"}
        /\ ~call'.raised)
       => /\ ~call'.none
          /\ call'.node # NoNode \/ call'.conn # NoConn]_vars

\* how many times the listener heard host_change of a host in the call
HostChanges(evs, host) == Cardinality({i \in DOMAIN evs : evs[i] = HostChange(host)})

\* C34 as claimed: in the first forward session to a target with status
\* External, a target without an expected verdict gets Incon and its host is
\* notified once; a target that has an expected verdict keeps it and its
\* host is not notified.
C34_Original ==
    [][(/\ call'.op = "connection"
        /\ ~call'.raised
        /\ ~call'.reply
        /\ call'.flow \notin DOMAIN sessions
        /\ status'[call'.conn[2]] = "External")
       => LET target == call'.conn[2]
              exp == PropGet(PropsBefore(target), EXPECTED)
          IN  IF exp = None
              THEN /\ PropGet(properties'[target], EXPECTED) = "Incon"
                   /\ HostChanges(events', get_parent_host(target)) = 1
              ELSE /\ PropGet(properties'[target], EXPECTED) = exp
                   /\ HostChanges(events', get_parent_host(target)) = 0]_vars

\* the addresses a host had before the call
AddressesBefore(h) == IF h \in DOMAIN addresses THEN addresses[h] ELSE {}

\* C34 amended: in the first forward session to a target with status
\* External, a target without an expected verdict gets Incon and its host is
\* notified once; a target that has an expected verdict keeps it, and its
\* host is notified only when the flow is the first of its connection and
\* the host learns an address from it.
C34_ExternalTargetIncon ==
    [][(/\ call'.op = "connection"
        /\ ~call'.raised
        /\ ~call'.reply
        /\ call'.flow \notin DOMAIN sessions
        /\ status'[call'.conn[2]] = "External")
       => LET target == call'.conn[2]
              host == get_parent_host(target)
              exp == PropGet(PropsBefore(target), EXPECTED)
              learned == /\ connection_count'[call'.conn] = 1
                         /\ addresses'[host] # AddressesBefore(host)
          IN  IF exp = None
              THEN /\ PropGet(properties'[target], EXPECTED) = "Incon"
                   /\ HostChanges(events', host) = 1
              ELSE /\ PropGet(properties'[target], EXPECTED) = exp
                   /\ HostChanges(events', host) = (IF learned THEN 1 ELSE 0)]_vars

\* two forward sessions went to the same External service: the first gave it
\* Incon, the second left it alone and did not report its host
C34_Witness ==
    /\ call.op = "connection"
    /\ ~call.raised
    /\ steps = 2
    /\ Cardinality(DOMAIN sessions) = 2
    /\ \A f \in DOMAIN sessions : ~sessions[f] /\ matched[f].conn[2] = call.conn[2]
    /\ status[call.conn[2]] = "External"
    /\ PropGet(properties[call.conn[2]], EXPECTED) = "Incon"
    /\ HostChanges(events, get_parent_host(call.conn[2])) = 0

\* the addresses of an end of a flow
EndPair(end) == {end.hw, end.ip}

EventCalls == {"connection", "name", "property_update", "property_address_update",
               "service_scan", "host_scan"}

\* C36: in an event call an entity changes its status only from
\* Placeholder, which in a connection call is an end taking the status of
\* the connection, or as the Unexpected host that name() has not known and
\* makes External; an Expected entity stays Expected and an External entity
\* does not become Unexpected.
C36_StatusChanges ==
    [][call'.op \in EventCalls =>
         \A n \in ents :
            /\ status'[n] # status[n] =>
                 \/ /\ status[n] = "Placeholder"
                    /\ call'.op = "connection" =>
                          /\ ~call'.raised
                          /\ n \in {call'.conn[1], call'.conn[2]}
                          /\ status'[n] = cstatus'[call'.conn]
                 \/ /\ call'.op = "name"
                    /\ n = call'.node
                    /\ n \notin known_hosts
                    /\ status[n] = "Unexpected"
                    /\ status'[n] = "External"
            /\ status[n] = "Expected" => status'[n] = "Expected"
            /\ status[n] = "External" => status'[n] # "Unexpected"]_vars

\* a host that a service scan created was named and became External
C36_Witness ==
    /\ call.op = "name"
    /\ steps = 2
    /\ call.node = X9
    /\ status[X9] = "External"
    /\ Service("X9", "tcp", 80) \in ents

\* C37: a Name event for a host that is in known_hosts (it took part in a
\* flow or a host scan, or was named, since the last reset) classifies
\* nothing: the host does not become External and its expected verdict
\* stays, whatever the peers of the event.
C37_KnownHostNotClassified ==
    [][(call'.op = "name" /\ call'.node \in known_hosts)
       => LET h == call'.node
          IN  /\ status[h] # "External" => status'[h] # "External"
              /\ PropGet(properties'[h], EXPECTED) = PropGet(properties[h], EXPECTED)]_vars

\* the host failed before, and a Name event without a restricting peer left
\* it Unexpected with its Fail
C37_Witness ==
    /\ call.op = "name"
    /\ call.peers = {}
    /\ steps = 2
    /\ status[call.node] = "Unexpected"
    /\ VerdictOf(call.node) = "Fail"

\* C38: with an SQL store, two distinct entities of one run never have the
\* same ID after a get_id, whatever their types and names, and an ID that
\* get_id allocates is not the ID of a row that the store had.
C38_SqlIdsDistinct ==
    [][(call'.op = "get_id" /\ db = "sql") =>
         /\ \A x, y \in DOMAIN sql'.id_cache :
               (x # y /\ x.inst = y.inst) => sql'.id_cache[x] # sql'.id_cache[y]
         /\ (call'.object \notin DOMAIN sql.id_cache /\ KeyRows(sql.rows, call'.object) = {})
               => call'.id \notin {r.id : r \in sql.rows}]_vars


\* ----------------------------------------------------- C39
\* the applications whose process is alive or whose exit wait_process has
\* still to handle
Launched(l) ==
    {app \in DOMAIN l.processes :
        l.processes[app] \in {[process |-> "starting", streams |-> ""],
                              [process |-> "running", streams |-> "saving"],
                              [process |-> "running", streams |-> "raised"],
                              [process |-> "exited", streams |-> "saving"]}}

\* C39, the part on concurrent requests: no two registered applications have
\* the same client port, every registered port is taken, and a request for a
\* registered application starts nothing and returns its registration
C39_NoSharedPort ==
    [][/\ \A a, b \in DOMAIN launcher'.connected :
             launcher'.connected[a] = launcher'.connected[b] => a = b
       /\ \A a \in DOMAIN launcher'.connected : launcher'.connected[a] \in launcher'.clients
       /\ (call'.op = "run_process" /\ call'.name \in DOMAIN launcher.connected)
             => /\ launcher' = launcher
                /\ call'.id = launcher.connected[call'.name]
       /\ \A app \in DOMAIN launcher.connected \ DOMAIN launcher'.connected :
             /\ app \in DOMAIN launcher.processes
             /\ launcher.processes[app].process = "exited"
             /\ launcher.connected[app] \notin launcher'.clients]_vars

\* C39: under any interleaving of launch requests, no port is given to two
\* applications, no second process is started for a registered application,
\* and the port and the registration of an application are released when,
\* and only when, its process has exited: they are held only for an
\* application whose process is alive or whose exit is still being handled
C39_PortsOfProcesses ==
    /\ \A a, b \in DOMAIN launcher.connected :
          launcher.connected[a] = launcher.connected[b] => a = b
    /\ \A app \in DOMAIN launcher.connected : app \in Launched(launcher)
    /\ launcher.clients = {launcher.connected[app] : app \in Launched(launcher)}
====
